---- MODULE Spec2Model ----
(***************************************************************************)
(* Model packaging and handler dispatch of snowflake-ml-python.            *)
(*                                                                         *)
(* The custom-model handler (model/_handlers/custom.py), the PyTorch       *)
(* handler (model/_handlers/pytorch.py) and the runtime check of           *)
(* _internal/env_utils.py are translated from their source.  The packager  *)
(* entry points, the handler registry and the signature helpers of         *)
(* model_meta are not part of the source tree at hand; they are modelled   *)
(* from the design document and marked so where they are defined.          *)
(***************************************************************************)
EXTENDS Integers, Sequences, FiniteSets, TLC

VARIABLES
    model,   \* the caller's in-memory model object (save may mutate it)
    fs,      \* the file system: [dirs, files]
    pk,      \* what the packager object holds after a load: meta and model
    last,    \* the last operation and its arguments
    err,     \* the error kind the last operation raised, NoErr if none
    log,     \* the framework calls made by the last operation (for a load:
             \* the blobs opened and the models returned), in order
    reads,   \* the files the last operation opened for reading
    envdeps, \* env_utils: the requirement list and the conda dependency
             \* dict being built, the metadata's dependencies, the last call
    resolver, \* env_utils: the package cache, the remote package table
              \* and the last call of the resolver
    scaler   \* preprocessing: a RobustScaler object and the last call on it

vars == <<model, fs, pk, last, err, log, reads, envdeps, resolver, scaler>>

packagerVars == <<model, fs, pk, last, err, log, reads>>

----------------------------------------------------------------------------
(* Bounds of the model *)

\* sample values carried by an input: 1..MaxVal
MaxVal == 2

----------------------------------------------------------------------------
(* Errors *)

NoErr == "none"

\* Python exception classes raised by the code; the design document's
\* ValidationError is ValueError, its UnsupportedModelTypeError is TypeError.
ValidationError == "ValueError"
UnsupportedModelTypeError == "TypeError"
AssertionError == "AssertionError"

----------------------------------------------------------------------------
(* Sequencing: Only({ body : x \in {e} }) is the value of body with x bound  *)
(* to the value of e, the way a local variable holds an intermediate result *)

Only(S) == CHOOSE x \in S : TRUE

----------------------------------------------------------------------------
(* Paths and files *)

Basename(p) == p[Len(p)]

Prefixes(p) == { SubSeq(p, 1, i) : i \in 1..Len(p) }

IsUnder(p, d) == Len(p) > Len(d) /\ SubSeq(p, 1, Len(d)) = d

BundleRoot == <<"bundle">>
DescriptorPath == <<"bundle", "model.yaml">>
ModelBlobPath(name) == <<"bundle", name>>

CUSTOM_MODEL_BLOB_FILE == "model.pkl"
MODEL_ARTIFACTS_DIR == "artifacts"
PYTORCH_MODEL_BLOB_FILE == "model.pt"

Data(n) == [kind |-> "data", val |-> n]
Pickle(obj) == [kind |-> "pickle", val |-> obj]
Descriptor(m) == [kind |-> "descriptor", val |-> m]

Exists(f, p) == p \in DOMAIN f.files

MakeDirs(f, p) == [f EXCEPT !.dirs = @ \cup Prefixes(p)]

WriteFile(f, p, c) == [f EXCEPT !.files = (p :> c) @@ @]

\* file_utils.copy_file_or_tree(uri, dir): the source stays, the copy takes
\* the source's base name inside dir and replaces what was there.
CopyFileOrTree(f, uri, dir) == WriteFile(f, Append(dir, Basename(uri)), f.files[uri])

\* Entries of the bundle directory (files and directories below its root).
BundleEntries(f) ==
    { p \in DOMAIN f.files : IsUnder(p, BundleRoot) }
        \cup { d \in f.dirs : IsUnder(d, BundleRoot) }

----------------------------------------------------------------------------
(* Model objects *)

MethodNames == {"forward", "predict"}

Obj(id, isCustom, isModule, isScript, callables, artifacts, refs) ==
    [id |-> id, isCustom |-> isCustom, isModule |-> isModule,
     isScript |-> isScript, callables |-> callables, training |-> TRUE,
     artifacts |-> artifacts, refs |-> refs]

\* torch.nn.Module subclasses; forward is callable on every Module
TorchForward == Obj("TorchForward", FALSE, TRUE, FALSE, {"forward"}, <<>>, <<>>)
TorchBoth == Obj("TorchBoth", FALSE, TRUE, FALSE, {"forward", "predict"}, <<>>, <<>>)
\* torch.jit.ScriptModule is a subclass of torch.nn.Module
Scripted == Obj("Scripted", FALSE, TRUE, TRUE, {"forward"}, <<>>, <<>>)
\* an object of no supported framework
Other == Obj("Other", FALSE, FALSE, FALSE, {"predict"}, <<>>, <<>>)
\* class Hybrid(custom_model.CustomModel, torch.nn.Module)
Hybrid == Obj("Hybrid", TRUE, TRUE, FALSE, {"forward", "predict"}, <<>>, <<>>)

Custom(id, artifacts, refs) == Obj(id, TRUE, FALSE, FALSE, {"predict"}, artifacts, refs)

SrcA == <<"src", "d1", "w.bin">>
SrcB == <<"src", "d1", "v.bin">>
SrcC == <<"src", "d2", "w.bin">>   \* same base name as SrcA

CustomPlain == Custom("CustomPlain", <<>>, <<>>)
CustomArtifacts == Custom("CustomArtifacts", << <<"a", SrcA>>, <<"b", SrcB>> >>, <<>>)
CustomSameBase == Custom("CustomSameBase", << <<"a", SrcA>>, <<"c", SrcC>> >>, <<>>)
CustomWithTorch == Custom("CustomWithTorch", <<>>, << <<"sub", TorchBoth>> >>)
CustomWithForward == Custom("CustomWithForward", << <<"a", SrcA>> >>, << <<"sub", TorchForward>> >>)
CustomWithScripted == Custom("CustomWithScripted", << <<"a", SrcA>> >>, << <<"sub", Scripted>> >>)
CustomTree ==
    Custom("CustomTree", <<>>,
           << <<"A", CustomArtifacts>>,
              <<"B", Custom("NodeB", << <<"b", SrcB>> >>, << <<"C", CustomPlain>> >>)>> >>)

\* a tree in which a nested sub-model has the name of a sub-model of the
\* root: the root owns A and B, B owns another model it calls A
CustomDupName ==
    Custom("CustomDupName", <<>>,
           << <<"A", CustomArtifacts>>,
              <<"B", Custom("NodeB2", <<>>, << <<"A", CustomPlain>> >>)>> >>)

Catalogue ==
    { TorchForward, TorchBoth, Scripted, Other, Hybrid, CustomPlain,
      CustomArtifacts, CustomSameBase, CustomWithTorch, CustomWithForward,
      CustomWithScripted, CustomTree, CustomDupName }

InitialFiles == (SrcA :> Data(1)) @@ (SrcB :> Data(2)) @@ (SrcC :> Data(3))

----------------------------------------------------------------------------
(* Data handed to a model: sample input at save, X at inference *)

NoData == [kind |-> "none", hasNull |-> FALSE, val |-> 0]
DataFrame(v, n) == [kind |-> "df", hasNull |-> n, val |-> v]
Tensors(v) == [kind |-> "tensors", hasNull |-> FALSE, val |-> v]

DataFrames == { DataFrame(v, n) : v \in 1..MaxVal, n \in BOOLEAN }

\* pytorch_handler.SeqOfPyTorchTensorHandler.can_handle
SeqOfPyTorchTensorCanHandle(d) == d.kind = "tensors"

\* model_signature._convert_local_data_to_df: validates the local data and
\* returns it as a data frame; a null value is a validation error.
ConvertLocalDataToDf(d) ==
    IF d.hasNull THEN [err |-> ValidationError, data |-> d]
    ELSE [err |-> NoErr, data |-> [d EXCEPT !.kind = "df"]]

\* pytorch_handler.SeqOfPyTorchTensorHandler.convert_from_df
ConvertFromDf(d) == [d EXCEPT !.kind = "tensors"]

\* What a call of method m of a torch module returns on tensors t.
Forward(obj, m, t) == [m |-> m, x |-> t.val, by |-> obj.id, training |-> obj.training]

----------------------------------------------------------------------------
(* Signatures *)

Feature(m, io) == <<m, io>>

\* The signature a caller declares for method m.
DeclaredSignature(m) ==
    [inputs |-> << Feature(m, "in") >>, outputs |-> << Feature(m, "out") >>]

\* model_signature.infer_signature(sample, predictions)
InferSignature(d, pred) ==
    [inputs |-> << Feature(d.kind, "input_feature_0") >>,
     outputs |-> << Feature(pred.m, "output_feature_0") >>]

EmptyMap == [x \in {} |-> x]

----------------------------------------------------------------------------
(* Metadata *)

\* snowml_env.PYTHON_VERSION of the process that saves the bundle
SAVE_PYTHON_VERSION == <<3, 8, 13>>
DEFAULT_CUDA_VERSION == "11.7"
PYTORCH_DEFAULT_TARGET_METHODS == <<"forward">>

NoMeta ==
    [name |-> "", models |-> EmptyMap, hasSigs |-> FALSE, sigs |-> EmptyMap,
     deps |-> <<>>, cuda_version |-> "", python_version |-> <<0, 0, 0>>]

\* ModelMetadata as constructed at the start of save.
NewMeta(name, hasSigs, sigs, pyver) ==
    [NoMeta EXCEPT !.name = name, !.hasSigs = hasSigs, !.sigs = sigs,
                   !.python_version = pyver]

SeqToSet(s) == { s[i] : i \in 1..Len(s) }

\* ModelMetadata._include_if_absent: a package already listed is left alone.
IncludeIfAbsent(deps, pkg) == IF pkg \in SeqToSet(deps) THEN deps ELSE Append(deps, pkg)

----------------------------------------------------------------------------
(* Handler registry *)

CustomCanHandle(obj) == obj.isCustom

PyTorchCanHandle(obj) == obj.isModule /\ ~obj.isScript

HandlerOrder == <<"custom", "pytorch">>

CanHandle(h, obj) == IF h = "custom" THEN CustomCanHandle(obj) ELSE PyTorchCanHandle(obj)

Accepting(obj) == { h \in SeqToSet(HandlerOrder) : CanHandle(h, obj) }

\* model_handler._find_handler: the first registered handler that accepts
\* the object, None when there is none (its callers test the result).
FindHandler(obj) ==
    IF Accepting(obj) = {} THEN "None"
    ELSE HandlerOrder[CHOOSE i \in 1..Len(HandlerOrder) :
            /\ CanHandle(HandlerOrder[i], obj)
            /\ \A j \in 1..(i - 1) : ~CanHandle(HandlerOrder[j], obj)]

\* model_handler._load_handler: the handler registered under a model_type tag.
LoadHandler(tag) == IF tag \in SeqToSet(HandlerOrder) THEN tag ELSE "None"

----------------------------------------------------------------------------
(* Saving: the state threaded through a save is                            *)
(*   [fs, meta, log, err, obj]                                             *)
(* obj being the object the PyTorch handler is working on.                 *)

Raise(s, e) == [s EXCEPT !.err = e]

NoOptions == [hasTargetMethods |-> FALSE, target_methods |-> <<>>, cuda_version |-> ""]

\* model_meta._get_target_methods: the option, or the defaults the model
\* has; every name must be callable on the model.
GetTargetMethods(obj, opts, defaults) ==
    LET tms == IF opts.hasTargetMethods THEN opts.target_methods
               ELSE SelectSeq(defaults, LAMBDA m : m \in obj.callables)
    IN  IF SeqToSet(tms) \subseteq obj.callables
        THEN [err |-> NoErr, methods |-> tms]
        ELSE [err |-> ValidationError, methods |-> <<>>]

\* get_prediction with model.eval() moved ahead of the conversion of the
\* sample
GetPredictionEvalFirst(s, tm, sample) ==
    LET s1 == [s EXCEPT !.obj.training = FALSE, !.log = Append(@, <<"eval">>)]
        df == ConvertLocalDataToDf(sample)
    IN  IF ~SeqOfPyTorchTensorCanHandle(sample) /\ df.err # NoErr
        THEN [s |-> Raise(s1, df.err), pred |-> Forward(s1.obj, tm, NoData)]
        ELSE [s |-> [s1 EXCEPT !.log = @ \o << <<"no_grad">>, <<"call", tm>> >>],
              pred |-> Forward(s1.obj, tm, sample)]

\* get_prediction calling the handler's default method whatever the target
\* method
GetPredictionOfDefaultMethod(s, tm, sample) ==
    IF ~SeqOfPyTorchTensorCanHandle(sample) /\ ConvertLocalDataToDf(sample).err # NoErr
    THEN [s |-> Raise(s, ValidationError), pred |-> Forward(s.obj, tm, NoData)]
    ELSE [s |-> [s EXCEPT !.obj.training = FALSE,
                          !.log = @ \o << <<"eval">>, <<"no_grad">>,
                                          <<"call", PYTORCH_DEFAULT_TARGET_METHODS[1]>> >>],
          pred |-> Forward([s.obj EXCEPT !.training = FALSE],
                           PYTORCH_DEFAULT_TARGET_METHODS[1],
                           IF SeqOfPyTorchTensorCanHandle(sample) THEN sample
                           ELSE ConvertFromDf(ConvertLocalDataToDf(sample).data))]

\* get_prediction of _PyTorchHandler._save_model: returns the state and the
\* predictions
GetPrediction(s, tm, sample) ==
    LET convert == ~SeqOfPyTorchTensorCanHandle(sample)
        df == ConvertLocalDataToDf(sample)
    IN  IF convert /\ df.err # NoErr
        THEN [s |-> Raise(s, df.err), pred |-> Forward(s.obj, tm, NoData)]
        ELSE
          LET input == IF convert THEN ConvertFromDf(df.data) ELSE sample
              s1 == [s EXCEPT !.obj.training = FALSE, !.log = Append(@, <<"eval">>)]
          IN  IF tm \notin s1.obj.callables
              THEN [s |-> Raise(s1, AssertionError), pred |-> Forward(s1.obj, tm, NoData)]
              ELSE [s |-> [s1 EXCEPT !.log = @ \o << <<"no_grad">>, <<"call", tm>> >>],
                    pred |-> Forward(s1.obj, tm, input)]

RECURSIVE InferSignatures(_, _, _, _)
\* the loop of model_meta._validate_signature over the target methods
InferSignatures(s, tms, i, sample) ==
    IF i > Len(tms) THEN s
    ELSE Only({ IF r.s.err # NoErr THEN r.s
                ELSE InferSignatures(
                       [r.s EXCEPT !.meta.sigs = (tms[i] :> InferSignature(sample, r.pred)) @@ @],
                       tms, i + 1, sample)
                : r \in { GetPrediction(s, tms[i], sample) } })

\* model_meta._validate_signature: declared signatures are checked against
\* the model's callables; without them they are inferred from the sample.
ValidateSignature(s, tms, sample) ==
    IF s.meta.hasSigs
    THEN IF DOMAIN s.meta.sigs \subseteq s.obj.callables THEN s
         ELSE Raise(s, ValidationError)
    ELSE IF sample.kind = "none" THEN Raise(s, ValidationError)
    ELSE InferSignatures([s EXCEPT !.meta.hasSigs = TRUE], tms, 1, sample)

BlobMeta(name, type, path, artifacts) ==
    [name |-> name, model_type |-> type, path |-> path, artifacts |-> artifacts]

\* the part of _PyTorchHandler._save_model under "if not is_sub_model"
PyTorchValidate(obj, s, sample, isSub, opts) ==
    LET tm == GetTargetMethods(obj, opts, PYTORCH_DEFAULT_TARGET_METHODS)
    IN  IF isSub THEN s
        ELSE IF tm.err # NoErr THEN Raise(s, tm.err)
        ELSE ValidateSignature(s, tm.methods, sample)

\* _PyTorchHandler._save_model
PyTorchSaveModel(name, obj, s0, sample, isSub, opts) ==
    IF ~obj.isModule THEN Raise(s0, AssertionError)
    ELSE Only({ IF s1.err # NoErr THEN s1
                ELSE [s1 EXCEPT
                        !.fs = WriteFile(MakeDirs(@, ModelBlobPath(name)),
                                         Append(ModelBlobPath(name), PYTORCH_MODEL_BLOB_FILE),
                                         Pickle(s1.obj)),
                        !.meta.models =
                            (name :> BlobMeta(name, "pytorch", PYTORCH_MODEL_BLOB_FILE, <<>>)) @@ @,
                        !.meta.deps = IncludeIfAbsent(@, "pytorch"),
                        !.meta.cuda_version =
                            IF opts.cuda_version = "" THEN DEFAULT_CUDA_VERSION
                            ELSE opts.cuda_version]
                : s1 \in { PyTorchValidate(obj, [s0 EXCEPT !.obj = obj], sample, isSub, opts) } })

RECURSIVE CopyArtifacts(_, _, _, _)
\* the loop over model.context.artifacts.items()
CopyArtifacts(f, artifacts, i, dir) ==
    IF i > Len(artifacts) THEN f
    ELSE CopyArtifacts(CopyFileOrTree(f, artifacts[i][2], dir), artifacts, i + 1, dir)

\* the artifacts entry of the blob metadata: logical name -> relative path,
\* a dict in the order of model.context.artifacts
ArtifactsMeta(artifacts) ==
    [i \in 1..Len(artifacts) |->
        <<artifacts[i][1], <<MODEL_ARTIFACTS_DIR, Basename(artifacts[i][2])>> >>]

RECURSIVE CustomSaveModel(_, _, _)
RECURSIVE SaveSubModels(_, _, _)

\* the sub-model loop of _CustomModelHandler._save_model
SaveSubModels(refs, i, s) ==
    IF i > Len(refs) THEN s
    ELSE IF FindHandler(refs[i][2]) = "None" THEN Raise(s, AssertionError)
    ELSE Only({ IF s1.err # NoErr THEN s1 ELSE SaveSubModels(refs, i + 1, s1)
                : s1 \in { IF FindHandler(refs[i][2]) = "custom"
                           THEN CustomSaveModel(refs[i][1], refs[i][2], s)
                           ELSE PyTorchSaveModel(refs[i][1], refs[i][2], s, NoData,
                                                 FALSE, NoOptions) } })

\* the blob directory and the artifacts of _CustomModelHandler._save_model
CustomSaveArtifacts(f, dir, artifacts) ==
    IF Len(artifacts) > 0
    THEN CopyArtifacts(MakeDirs(MakeDirs(f, dir), Append(dir, MODEL_ARTIFACTS_DIR)),
                       artifacts, 1, Append(dir, MODEL_ARTIFACTS_DIR))
    ELSE MakeDirs(f, dir)

\* _CustomModelHandler._save_model
CustomSaveModel(name, obj, s) ==
    IF ~obj.isCustom THEN Raise(s, AssertionError)
    ELSE Only({ IF s3.err # NoErr THEN s3
                ELSE [s3 EXCEPT
                        !.fs = WriteFile(@, Append(ModelBlobPath(name), CUSTOM_MODEL_BLOB_FILE),
                                         Pickle(obj)),
                        !.meta.models =
                            (name :> BlobMeta(name, "custom", CUSTOM_MODEL_BLOB_FILE,
                                              ArtifactsMeta(obj.artifacts))) @@ @]
                : s3 \in { IF Len(obj.refs) > 0
                           THEN SaveSubModels(obj.refs, 1,
                                  [s EXCEPT !.fs = CustomSaveArtifacts(@, ModelBlobPath(name),
                                                                       obj.artifacts)])
                           ELSE [s EXCEPT !.fs = CustomSaveArtifacts(@, ModelBlobPath(name),
                                                                     obj.artifacts)] } })

----------------------------------------------------------------------------
(* Loading: the state threaded through a load is                           *)
(*   [reads, err, trace, fs, meta]                                         *)
(* the trace listing the blobs opened and the models returned, in order,   *)
(* fs and meta being the file system and the ModelMetadata object as the   *)
(* load leaves them; a loader returns [l, model].                          *)

FileNotFoundError == "FileNotFoundError"
KeyError == "KeyError"
LocalEnvironmentError == "SnowflakeMLException"

NoModel == Obj("None", FALSE, FALSE, FALSE, {}, <<>>, <<>>)

Failed(l, e) == [l |-> [l EXCEPT !.err = e], model |-> NoModel]

\* _load_model ending as _save_model does, with
\* model_meta.cuda_version = kwargs.get("cuda_version", default)
PyTorchLoadModelSetsCuda(name, meta, f, l) ==
    IF name \notin DOMAIN meta.models
           \/ ~Exists(f, Append(ModelBlobPath(name), meta.models[name].path))
    THEN Failed(l, "ValueError")
    ELSE [l |-> [l EXCEPT !.reads = @ \cup {Append(ModelBlobPath(name), meta.models[name].path)},
                          !.trace = @ \o << <<"open", name>>, <<"loaded", name>> >>,
                          !.meta.cuda_version = DEFAULT_CUDA_VERSION],
          model |-> f.files[Append(ModelBlobPath(name), meta.models[name].path)].val]

\* _PyTorchHandler._load_model
PyTorchLoadModel(name, meta, f, l) ==
    IF name \notin DOMAIN meta.models THEN Failed(l, "ValueError")
    ELSE
      LET path == Append(ModelBlobPath(name), meta.models[name].path)
      IN  IF ~Exists(f, path) THEN Failed(l, FileNotFoundError)
          ELSE IF ~f.files[path].val.isModule
               THEN Failed([l EXCEPT !.reads = @ \cup {path},
                                     !.trace = Append(@, <<"open", name>>)],
                           AssertionError)
               ELSE [l |-> [l EXCEPT !.reads = @ \cup {path},
                                     !.trace = @ \o << <<"open", name>>, <<"loaded", name>> >>],
                     model |-> f.files[path].val]

RECURSIVE CustomLoadModel(_, _, _, _)
RECURSIVE LoadSubModels(_, _, _, _, _, _)

\* the sub-model loop of _CustomModelHandler._load_model; acc collects
\* the dict models
LoadSubModels(refs, i, meta, f, l, acc) ==
    IF i > Len(refs) THEN [l |-> l, models |-> acc]
    ELSE IF refs[i][1] \notin DOMAIN meta.models
    THEN [l |-> [l EXCEPT !.err = KeyError], models |-> acc]
    ELSE IF LoadHandler(meta.models[refs[i][1]].model_type) = "None"
    THEN [l |-> [l EXCEPT !.err = AssertionError], models |-> acc]
    ELSE Only({ IF r.l.err # NoErr THEN [l |-> r.l, models |-> acc]
                ELSE LoadSubModels(refs, i + 1, meta, f, r.l,
                                   Append(acc, <<refs[i][1], r.model>>))
                : r \in { IF LoadHandler(meta.models[refs[i][1]].model_type) = "custom"
                          THEN CustomLoadModel(refs[i][1], meta, f, l)
                          ELSE PyTorchLoadModel(refs[i][1], meta, f, l) } })

\* the dict artifacts of _CustomModelHandler._load_model: every recorded
\* relative path joined to the model's own blob directory
LoadedArtifacts(dir, artifacts_meta) ==
    [i \in 1..Len(artifacts_meta) |->
        <<artifacts_meta[i][1], dir \o artifacts_meta[i][2]>>]

\* _CustomModelHandler._load_model
CustomLoadModel(name, meta, f, l) ==
    IF name \notin DOMAIN meta.models THEN Failed(l, "ValueError")
    ELSE IF ~Exists(f, Append(ModelBlobPath(name), meta.models[name].path))
    THEN Failed(l, FileNotFoundError)
    ELSE
      LET path == Append(ModelBlobPath(name), meta.models[name].path)
          m == f.files[path].val
      IN  Only({ IF subs.l.err # NoErr THEN Failed(subs.l, subs.l.err)
                 ELSE [l |-> [subs.l EXCEPT !.trace = Append(@, <<"loaded", name>>)],
                       \* ModelClass(ctx): a new instance of type(m) on the
                       \* context built from the bundle
                       model |-> [m EXCEPT
                                    !.artifacts = LoadedArtifacts(ModelBlobPath(name),
                                                                  meta.models[name].artifacts),
                                    !.refs = subs.models,
                                    !.training = TRUE]]
                 : subs \in { LoadSubModels(m.refs, 1, meta, f,
                                            [l EXCEPT !.reads = @ \cup {path},
                                                      !.trace = Append(@, <<"open", name>>)],
                                            <<>>) } })

----------------------------------------------------------------------------
(* The uniform wrapper of the PyTorch handler *)

AttributeError == "AttributeError"

MethodOrder == <<"forward", "predict">>

\* model_meta.signatures.items()
SignatureItems(sigs) == SelectSeq(MethodOrder, LAMBDA m : m \in DOMAIN sigs)

\* fn_factory: the closure keeps its own signature and target method
FnFactory(signature, target_method) ==
    [signature |-> signature, target_method |-> target_method]

RECURSIVE TypeMethodDict(_, _, _, _)
\* the loop filling type_method_dict
TypeMethodDict(items, sigs, i, acc) ==
    IF i > Len(items) THEN acc
    ELSE TypeMethodDict(items, sigs, i + 1,
                        (items[i] :> FnFactory(sigs[items[i]], items[i])) @@ acc)

\* every closure bound to the loop variables' last values
CreateCustomModelLateBinding(raw_model, meta) ==
    LET items == SignatureItems(meta.sigs)
    IN  [raw |-> raw_model,
         methods |-> [m \in DOMAIN meta.sigs |->
                        FnFactory(meta.sigs[items[Len(items)]], items[Len(items)])]]

\* only the handler's default target methods synthesized
CreateCustomModelDefaultsOnly(raw_model, meta) ==
    [raw |-> raw_model,
     methods |-> TypeMethodDict(PYTORCH_DEFAULT_TARGET_METHODS,
                                [m \in MethodNames |->
                                    IF m \in DOMAIN meta.sigs THEN meta.sigs[m]
                                    ELSE DeclaredSignature(m)],
                                1, EmptyMap)]

\* _create_custom_model: one synthesized method per signature entry
CreateCustomModel(raw_model, meta) ==
    [raw |-> raw_model,
     methods |-> TypeMethodDict(SignatureItems(meta.sigs), meta.sigs, 1, EmptyMap)]

NoWrapper == [raw |-> NoModel, methods |-> EmptyMap]

\* _PyTorchHandler._load_as_custom_model
PyTorchLoadAsCustomModel(name, meta, f, l) ==
    Only({ IF r.l.err # NoErr THEN [l |-> r.l, model |-> NoWrapper]
           ELSE [l |-> r.l, model |-> CreateCustomModel(r.model, meta)]
           : r \in { PyTorchLoadModel(name, meta, f, l) } })

NoOut == [columns |-> <<>>, val |-> Forward(NoModel, "", NoData)]

\* fn with eval() and the conversion ahead of the null check
FnNullCheckLate(w, name, X, use_gpu) ==
    LET c == w.methods[name]
        raw1 == [w.raw EXCEPT !.training = FALSE]
        log1 == << <<"eval">>, <<"convert_from_df", c.signature.inputs>> >>
                  \o (IF use_gpu THEN << <<"cuda">> >> ELSE <<>>)
                  \o << <<"no_grad">> >>
    IN  IF X.hasNull
        THEN [err |-> "ValueError", log |-> log1, raw |-> raw1, out |-> NoOut]
        ELSE [err |-> NoErr,
              log |-> Append(log1, <<"call", c.target_method>>),
              raw |-> raw1,
              out |-> [columns |-> c.signature.outputs,
                       val |-> Forward(raw1, c.target_method, ConvertFromDf(X))]]

\* fn, the method synthesized for one signature entry, called with X:
\* returns the error, the framework calls made, the raw model as the call
\* leaves it and the data frame returned
Fn(w, name, X, use_gpu) ==
    LET c == w.methods[name]
    IN  IF X.hasNull
        THEN [err |-> "ValueError", log |-> <<>>, raw |-> w.raw, out |-> NoOut]
        ELSE
          LET raw1 == [w.raw EXCEPT !.training = FALSE]
              t == ConvertFromDf(X)
              log1 == << <<"eval">>, <<"convert_from_df", c.signature.inputs>> >>
                        \o (IF use_gpu THEN << <<"cuda">> >> ELSE <<>>)
                        \o << <<"no_grad">> >>
          IN  IF c.target_method \notin raw1.callables
              THEN [err |-> AttributeError, log |-> log1, raw |-> raw1, out |-> NoOut]
              ELSE [err |-> NoErr,
                    log |-> Append(log1, <<"call", c.target_method>>),
                    raw |-> raw1,
                    \* rename_pandas_df(convert_to_df(res), signature.outputs)
                    out |-> [columns |-> c.signature.outputs,
                             val |-> Forward(raw1, c.target_method, t)]]

----------------------------------------------------------------------------
(* env_utils.validate_py_runtime_version                                   *)
(* provided: the version recorded in the bundle; current:                  *)
(* snowml_env.PYTHON_VERSION of the process that loads it                  *)

\* only the major version compared
ValidatePyRuntimeVersionMajorOnly(provided, current) ==
    IF provided # current /\ provided[1] # current[1]
    THEN LocalEnvironmentError ELSE NoErr

ValidatePyRuntimeVersion(provided, current) ==
    IF provided # current
    THEN IF provided[1] # current[1] \/ provided[2] # current[2]
         THEN LocalEnvironmentError
         ELSE NoErr
    ELSE NoErr

----------------------------------------------------------------------------
(* The packager: ModelPackager.save and ModelPackager.load *)

IOError == "IOError"
CorruptBundleError == "ValueError"

ModelName == "model1"

\* the test left out: any target directory taken for empty
TargetDirNeverNonEmpty(f) == FALSE

\* ModelPackager.save: a non-empty directory exists at the target path
TargetDirNonEmpty(f) == BundleEntries(f) # {}

\* ModelPackager.save
PackagerSave(obj, f, hasSigs, sigs, sample, opts) ==
    LET s0 == [fs |-> f, meta |-> NoMeta, log |-> <<>>, err |-> NoErr, obj |-> obj]
    IN  IF ~hasSigs /\ sample.kind = "none" THEN Raise(s0, ValidationError)
        ELSE IF TargetDirNonEmpty(f) THEN Raise(s0, IOError)
        ELSE IF FindHandler(obj) = "None" THEN Raise(s0, UnsupportedModelTypeError)
        ELSE Only({ IF s2.err # NoErr THEN s2
                    ELSE [s2 EXCEPT !.fs = WriteFile(@, DescriptorPath, Descriptor(s2.meta))]
                    : s2 \in { IF FindHandler(obj) = "custom"
                               THEN CustomSaveModel(ModelName, obj,
                                      [s0 EXCEPT !.fs = MakeDirs(@, BundleRoot),
                                                 !.meta = NewMeta(ModelName, hasSigs, sigs,
                                                                  SAVE_PYTHON_VERSION)])
                               ELSE PyTorchSaveModel(ModelName, obj,
                                      [s0 EXCEPT !.fs = MakeDirs(@, BundleRoot),
                                                 !.meta = NewMeta(ModelName, hasSigs, sigs,
                                                                  SAVE_PYTHON_VERSION)],
                                      sample, FALSE, opts) } })

NoLoad ==
    [l |-> [reads |-> {}, err |-> NoErr, trace |-> <<>>,
            fs |-> [dirs |-> {}, files |-> EmptyMap], meta |-> NoMeta],
     kind |-> "none", meta |-> NoMeta, model |-> NoModel, use_gpu |-> FALSE]

\* the handler call of ModelPackager.load
PackagerLoadModel(m, f, l0, as_custom_model) ==
    IF LoadHandler(m.models[m.name].model_type) = "custom"
    THEN CustomLoadModel(m.name, m, f, l0)
    ELSE IF as_custom_model THEN PyTorchLoadAsCustomModel(m.name, m, f, l0)
    ELSE PyTorchLoadModel(m.name, m, f, l0)

\* ModelPackager.load
PackagerLoad(f, runtime, meta_only, as_custom_model, use_gpu) ==
    IF ~Exists(f, DescriptorPath)
    THEN [NoLoad EXCEPT !.l.err = CorruptBundleError, !.l.fs = f]
    ELSE
      LET m == f.files[DescriptorPath].val
          l0 == [reads |-> {DescriptorPath}, err |-> NoErr, trace |-> <<>>,
                 fs |-> f, meta |-> m]
          got == [NoLoad EXCEPT !.l = l0, !.meta = m, !.kind = "meta"]
      IN  IF meta_only THEN got
          ELSE IF ValidatePyRuntimeVersion(m.python_version, runtime) # NoErr
          THEN [got EXCEPT !.l.err = ValidatePyRuntimeVersion(m.python_version, runtime)]
          ELSE IF m.name \notin DOMAIN m.models
          THEN [got EXCEPT !.l.err = CorruptBundleError]
          ELSE Only({ IF r.l.err # NoErr THEN [got EXCEPT !.l = r.l, !.meta = r.l.meta]
                      ELSE [l |-> r.l,
                            kind |-> IF as_custom_model /\ m.models[m.name].model_type = "pytorch"
                                     THEN "wrapper" ELSE "native",
                            meta |-> r.l.meta, model |-> r.model, use_gpu |-> use_gpu]
                      : r \in { PackagerLoadModel(m, f, l0, as_custom_model) } })

----------------------------------------------------------------------------
(* Inputs *)

SigMap(ms) == [m \in ms |-> DeclaredSignature(m)]

\* the signatures argument of save: None, or a dict keyed by method name
SignatureChoices ==
    { [has |-> FALSE, sigs |-> EmptyMap] } \cup
    { [has |-> TRUE, sigs |-> SigMap(ms)] :
        ms \in { {"forward"}, {"predict"}, {"forward", "predict"} } }

SampleChoices == { NoData, DataFrame(1, FALSE), DataFrame(1, TRUE), Tensors(1) }

TargetMethodChoices ==
    { [hasTargetMethods |-> FALSE, target_methods |-> <<>>],
      [hasTargetMethods |-> TRUE, target_methods |-> <<"forward", "predict">>] }

CudaChoices == {"", "12.1"}

\* the Python versions a loading process may run
PyVersions == { SAVE_PYTHON_VERSION, <<3, 8, 10>>, <<3, 9, 1>> }

----------------------------------------------------------------------------
(* The state machine *)

NoPk == [kind |-> "none", meta |-> NoMeta, model |-> NoModel, use_gpu |-> FALSE]

NoArgs ==
    [op |-> "none", fresh |-> FALSE, hasSigs |-> FALSE, sigs |-> EmptyMap,
     sample |-> NoData, hasTargetMethods |-> FALSE, target_methods |-> <<>>,
     runtime |-> <<0, 0, 0>>, meta_only |-> FALSE, as_custom_model |-> FALSE,
     method |-> "", X |-> NoData, out |-> NoOut]

\* nothing of env_utils has been called
NoDeps ==
    [pip |-> <<>>, meta |-> <<>>, conda |-> EmptyMap,
     op |-> "none", arg |-> <<>>, before |-> <<>>, err |-> NoErr,
     local |-> {}, warned |-> FALSE, python_version |-> {}]

\* no call of the resolver yet: the cache of the process is empty and the
\* existence of the runtime_version column has not been looked up
\* (has_runtime_version: {} for None, else the singleton of the answer)
NoResolver ==
    [cache |-> EmptyMap, has_runtime_version |-> {}, table |-> {},
     op |-> "none", reqs |-> <<>>, python_version |-> "", fails |-> FALSE,
     none |-> FALSE, result |-> <<>>, trace |-> <<>>]

\* RobustScaler(): the default parameters, nothing fitted
\* (reset_clears: whether the _reset of the base classes, which are not
\* part of the source tree at hand, clears _is_fitted; ever_fit: a fit of
\* this object has completed)
NoScaler ==
    [with_centering |-> TRUE, with_scaling |-> TRUE, quantile_ok |-> TRUE,
     reset_clears |-> FALSE,
     is_fitted |-> FALSE, state_is_set |-> FALSE,
     center |-> EmptyMap, scale |-> EmptyMap,
     ever_fit |-> FALSE, op |-> "none", err |-> NoErr, out |-> <<>>]

Init ==
    /\ envdeps = NoDeps
    /\ resolver = NoResolver
    /\ scaler = NoScaler
    /\ model \in Catalogue
    /\ fs = [dirs |-> {<<"src">>, <<"src", "d1">>, <<"src", "d2">>}, files |-> InitialFiles]
    /\ pk = NoPk
    /\ last = NoArgs
    /\ err = NoErr
    /\ log = <<>>
    /\ reads = {}

\* pk = ModelPackager(dir); pk.save(name, model, signatures, sample_input, options)
\* last.fresh: the bundle directory was empty or absent when save was called
Save(sig, sample, tm, cuda) ==
    \E s \in { PackagerSave(model, fs, sig.has, sig.sigs, sample,
                            [hasTargetMethods |-> tm.hasTargetMethods,
                             target_methods |-> tm.target_methods,
                             cuda_version |-> cuda]) } :
        /\ model' = IF s.obj.id = model.id THEN s.obj ELSE model
        /\ fs' = s.fs
        /\ pk' = [NoPk EXCEPT !.kind = IF s.err = NoErr THEN "saved" ELSE "failed",
                              !.meta = s.meta]
        /\ last' = [NoArgs EXCEPT !.op = "save", !.fresh = (BundleEntries(fs) = {}),
                                  !.hasSigs = sig.has, !.sigs = sig.sigs,
                                  !.sample = sample,
                                  !.hasTargetMethods = tm.hasTargetMethods,
                                  !.target_methods = tm.target_methods]
        /\ err' = s.err
        /\ log' = s.log
        /\ reads' = {}
        /\ UNCHANGED <<envdeps, resolver, scaler>>

\* pk = ModelPackager(dir); pk.load(meta_only, as_custom_model, options), in
\* a process running Python version runtime
Load(runtime, meta_only, as_custom_model, use_gpu) ==
    \E r \in { PackagerLoad(fs, runtime, meta_only, as_custom_model, use_gpu) } :
        /\ pk' = [kind |-> IF r.l.err = NoErr THEN r.kind ELSE "failed",
                  meta |-> r.meta, model |-> r.model, use_gpu |-> r.use_gpu]
        /\ last' = [NoArgs EXCEPT !.op = "load", !.runtime = runtime,
                                  !.meta_only = meta_only,
                                  !.as_custom_model = as_custom_model]
        /\ err' = r.l.err
        /\ log' = r.l.trace
        /\ reads' = r.l.reads
        /\ fs' = r.l.fs
        /\ UNCHANGED <<model, envdeps, resolver, scaler>>

\* getattr(pk.model, name)(X) on a model loaded as uniform wrapper
Call(name, X) ==
    /\ pk.kind = "wrapper"
    /\ name \in DOMAIN pk.model.methods
    /\ \E r \in { Fn(pk.model, name, X, pk.use_gpu) } :
           /\ pk' = [pk EXCEPT !.model.raw = r.raw]
           /\ last' = [NoArgs EXCEPT !.op = "call", !.method = name, !.X = X, !.out = r.out]
           /\ err' = r.err
           /\ log' = r.log
    /\ reads' = {}
    /\ UNCHANGED <<model, fs, envdeps, resolver, scaler>>

\* the blob files of the bundle
BlobFiles(f) ==
    { p \in DOMAIN f.files :
        /\ IsUnder(p, BundleRoot)
        /\ Basename(p) \in {CUSTOM_MODEL_BLOB_FILE, PYTORCH_MODEL_BLOB_FILE} }

\* Between a save and a load the blob file p disappears from the bundle.
RemoveBlobFile(p) ==
    /\ pk.kind = "saved"
    /\ p \in BlobFiles(fs)
    /\ fs' = [fs EXCEPT !.files = [q \in DOMAIN @ \ {p} |-> @[q]]]
    /\ pk' = [pk EXCEPT !.kind = "damaged"]
    /\ last' = [NoArgs EXCEPT !.op = "damage"]
    /\ err' = NoErr
    /\ log' = <<>>
    /\ reads' = {}
    /\ UNCHANGED <<model, envdeps, resolver, scaler>>

\* Between a save and a load the descriptor loses the entry of blob n.
RemoveBlobEntry(n) ==
    /\ pk.kind = "saved"
    /\ Exists(fs, DescriptorPath)
    /\ n \in DOMAIN fs.files[DescriptorPath].val.models
    /\ fs' = [fs EXCEPT !.files[DescriptorPath].val.models =
                            [k \in DOMAIN @ \ {n} |-> @[k]]]
    /\ pk' = [pk EXCEPT !.kind = "damaged"]
    /\ last' = [NoArgs EXCEPT !.op = "damage"]
    /\ err' = NoErr
    /\ log' = <<>>
    /\ reads' = {}
    /\ UNCHANGED <<model, envdeps, resolver, scaler>>

\* the names blobs are saved under, and the paths of their files
BlobNames == {"model1", "sub", "A", "B", "C"}

BlobPaths ==
    { Append(ModelBlobPath(n), file) :
        n \in BlobNames, file \in {CUSTOM_MODEL_BLOB_FILE, PYTORCH_MODEL_BLOB_FILE} }

Next ==
    \/ \E sig \in SignatureChoices, sample \in SampleChoices, tm \in TargetMethodChoices,
          cuda \in CudaChoices :
            Save(sig, sample, tm, cuda)
    \/ \E runtime \in PyVersions, meta_only \in BOOLEAN, as_custom_model \in BOOLEAN,
          use_gpu \in BOOLEAN :
            Load(runtime, meta_only, as_custom_model, use_gpu)
    \/ \E name \in MethodNames, X \in DataFrames : Call(name, X)
    \/ \E p \in BlobPaths : RemoveBlobFile(p)
    \/ \E n \in BlobNames : RemoveBlobEntry(n)

Spec == Init /\ [][Next]_vars

----------------------------------------------------------------------------
(* What a caller observes of a native model *)

RECURSIVE Objects(_)
\* the model and every sub-model below it
Objects(o) ==
    {o} \cup UNION { Objects(o.refs[i][2]) : i \in 1..Len(o.refs) }

Missing == [kind |-> "missing", val |-> 0]

RECURSIVE Behaviour(_, _)
\* What the methods of a model compute with: its class, its mode, the
\* contents its context's artifact paths lead to and its sub-models.
Behaviour(o, f) ==
    [class |-> o.id, training |-> o.training,
     artifacts |-> [i \in 1..Len(o.artifacts) |->
                      <<o.artifacts[i][1],
                        IF Exists(f, o.artifacts[i][2]) THEN f.files[o.artifacts[i][2]]
                        ELSE Missing>>],
     refs |-> [i \in 1..Len(o.refs) |-> <<o.refs[i][1], Behaviour(o.refs[i][2], f)>>]]

\* the result of method m of a native model on input X
NativeResult(o, f, m, X) == [m |-> m, x |-> X.val, by |-> Behaviour(o, f)]

SameFrameworkType(a, b) ==
    /\ a.id = b.id
    /\ a.isCustom = b.isCustom
    /\ a.isModule = b.isModule
    /\ a.isScript = b.isScript

\* positions of the framework calls of one kind in the last operation's log
Events(kind) == { i \in 1..Len(log) : log[i][1] = kind }

\* the last save got past the argument checks of the packager: it was given
\* signatures or a sample, and the bundle directory was empty
SaveReachedDispatch ==
    /\ last.op = "save"
    /\ last.fresh
    /\ last.hasSigs \/ last.sample.kind # "none"

----------------------------------------------------------------------------
(* Properties *)

\* C1: round-trip identity.  After a load with default options that
\* succeeded, the loaded object has the framework type of the model that
\* was saved, and for every method of the signatures and every input the
\* loaded model's method returns what the saved model's method returns.
C1_RoundTripIdentity ==
    (last.op = "load" /\ ~last.meta_only /\ ~last.as_custom_model /\ err = NoErr) =>
        /\ pk.kind = "native"
        /\ SameFrameworkType(pk.model, model)
        /\ \A m \in DOMAIN pk.meta.sigs, X \in DataFrames :
              NativeResult(pk.model, fs, m, X) = NativeResult(model, fs, m, X)

\* C2: every object of the model tree is accepted by at most one of the
\* two handlers, and a save that reaches dispatch with a model accepted by
\* none reports it as unsupported.
C2_HandlerExclusivity ==
    /\ \A o \in Objects(model) : Cardinality(Accepting(o)) <= 1
    /\ (SaveReachedDispatch /\ Accepting(model) = {}) =>
          err = UnsupportedModelTypeError

\* C3: a save that reaches dispatch with a model, or a sub-model, that no
\* handler accepts fails with UnsupportedModelTypeError and no other kind
\* of error.
C3_UnsupportedModelTypeError ==
    (SaveReachedDispatch /\ \E o \in Objects(model) : Accepting(o) = {}) =>
        err = UnsupportedModelTypeError

\* C4: every method name of the signatures recorded by a save is callable
\* on the saved model, in the metadata and in the descriptor on disk, and a
\* save whose signatures or target_methods name a method that is not
\* callable fails with a validation error.
C4_SignaturesAreCallable ==
    /\ pk.kind = "saved" => DOMAIN pk.meta.sigs \subseteq model.callables
    /\ Exists(fs, DescriptorPath) =>
          DOMAIN fs.files[DescriptorPath].val.sigs \subseteq model.callables
    /\ ( /\ SaveReachedDispatch
         /\ FindHandler(model) # "None"
         /\ \/ last.hasSigs /\ ~(DOMAIN last.sigs \subseteq model.callables)
            \/ last.hasTargetMethods
                 /\ ~(SeqToSet(last.target_methods) \subseteq model.callables) )
       => err = ValidationError

\* C6: a save by the PyTorch handler that has to infer the signatures from
\* a sample holding a null value fails with ValidationError, and by then
\* nothing has been called on the model: no eval(), no target method, the
\* model is still in training mode and nothing was written.
C6_NullSampleRejectedBeforeFrameworkCall ==
    ( /\ SaveReachedDispatch
      /\ FindHandler(model) = "pytorch"
      /\ ~last.hasSigs
      /\ last.sample.hasNull )
    => /\ err = ValidationError
       /\ log = <<>>
       /\ model.training
       /\ DOMAIN pk.meta.sigs = {}
       /\ ~Exists(fs, DescriptorPath)

\* a PyTorch model whose target methods are all callable was saved with a
\* sample holding a null and no signatures, and the save was rejected
C6_Witness ==
    /\ SaveReachedDispatch
    /\ FindHandler(model) = "pytorch"
    /\ ~last.hasSigs
    /\ last.sample.hasNull
    /\ ~last.hasTargetMethods
    /\ err = ValidationError

\* C7: the methods of a model loaded as uniform wrapper are exactly the
\* keys of the signatures of the loaded metadata.
C7_WrapperMethodSurface ==
    pk.kind = "wrapper" => DOMAIN pk.model.methods = DOMAIN pk.meta.sigs

\* a wrapper loaded from a bundle that declares two methods
C7_Witness ==
    /\ pk.kind = "wrapper"
    /\ last.op = "load"
    /\ DOMAIN pk.meta.sigs = {"forward", "predict"}

\* C8: a wrapper method called with input holding a null raises a
\* validation error and has made no framework call: no eval(), no
\* conversion to tensors, no call of the native method.
C8_WrapperRejectsNullFirst ==
    (last.op = "call" /\ last.X.hasNull) =>
        /\ err = ValidationError
        /\ log = <<>>
        /\ Events("call") = {}
        /\ last.out = NoOut

\* a wrapper method was called with null-holding input
C8_Witness ==
    /\ last.op = "call"
    /\ last.X.hasNull
    /\ err = ValidationError
    /\ pk.kind = "wrapper"

\* C9: a wrapper method m called with null-free input makes exactly one
\* native call, of the method named m, after eval() and with gradients
\* off; the input is converted with signatures[m].inputs and the columns
\* of the result are named from signatures[m].outputs.
C9_WrapperRetargeting ==
    (last.op = "call" /\ ~last.X.hasNull) =>
        /\ err = NoErr
        /\ Cardinality(Events("call")) = 1
        /\ log[Len(log)] = <<"call", last.method>>
        /\ \E e \in Events("eval"), c \in Events("convert_from_df"),
              g \in Events("no_grad") :
                /\ e < Len(log) /\ c < Len(log) /\ g < Len(log)
                /\ log[c] = <<"convert_from_df", pk.meta.sigs[last.method].inputs>>
        /\ ~pk.model.raw.training
        /\ last.out.columns = pk.meta.sigs[last.method].outputs
        /\ last.out.val = [m |-> last.method, x |-> last.X.val,
                           by |-> pk.model.raw.id, training |-> FALSE]

\* with two methods declared, the one that is not the last of the
\* signatures was called through the wrapper
C9_Witness ==
    /\ last.op = "call"
    /\ err = NoErr
    /\ last.method = "forward"
    /\ DOMAIN pk.meta.sigs = {"forward", "predict"}

\* the blob files an operation opened
BlobReads == { p \in reads : \E n \in DOMAIN pk.meta.models : IsUnder(p, ModelBlobPath(n)) }

\* the runtime of the last load differs from the bundle's in major or minor
RuntimeMismatch ==
    \/ last.runtime[1] # fs.files[DescriptorPath].val.python_version[1]
    \/ last.runtime[2] # fs.files[DescriptorPath].val.python_version[2]

\* C10: a load with meta_only of a bundle that has a descriptor succeeds,
\* returns the descriptor's metadata and opens no file under a model
\* directory, whatever the runtime; a full load of the same bundle is
\* rejected exactly when the runtime differs from the recorded Python
\* version in major or minor, and then opens no blob either.
C10_MetaOnlyIsolation ==
    (last.op = "load" /\ Exists(fs, DescriptorPath)) =>
        /\ last.meta_only =>
              /\ err = NoErr
              /\ pk.kind = "meta"
              /\ pk.meta = fs.files[DescriptorPath].val
              /\ reads = {DescriptorPath}
              /\ BlobReads = {}
        /\ (~last.meta_only /\ RuntimeMismatch) =>
              /\ err = LocalEnvironmentError
              /\ BlobReads = {}
        /\ (~last.meta_only /\ ~RuntimeMismatch) => err # LocalEnvironmentError

\* a meta_only load succeeded in a runtime whose minor version differs from
\* the one the bundle was saved with
C10_Witness ==
    /\ last.op = "load"
    /\ last.meta_only
    /\ Exists(fs, DescriptorPath)
    /\ last.runtime[2] # fs.files[DescriptorPath].val.python_version[2]
    /\ err = NoErr
    /\ pk.kind = "meta"

\* position of the first event <<kind, name>> of the last operation's log,
\* 0 when there is none
Position(kind, name) ==
    IF \E i \in 1..Len(log) : log[i] = <<kind, name>>
    THEN CHOOSE i \in 1..Len(log) :
            /\ log[i] = <<kind, name>>
            /\ \A j \in 1..(i - 1) : log[j] # <<kind, name>>
    ELSE 0

RECURSIVE TreeIntact(_, _, _)
\* the loaded node is of the saved node's class, holds the saved node's
\* sub-models under their names, each intact in turn, and holds the saved
\* node's artifact names, each on a path below the node's own artifacts
\* directory; the node was opened before, and returned after, every one of
\* its sub-models, and its sub-models were loaded one after the other
TreeIntact(loaded, saved, name) ==
    /\ loaded.id = saved.id
    /\ Len(loaded.refs) = Len(saved.refs)
    /\ \A i \in 1..Len(saved.refs) :
          /\ loaded.refs[i][1] = saved.refs[i][1]
          /\ TreeIntact(loaded.refs[i][2], saved.refs[i][2], saved.refs[i][1])
          /\ 0 < Position("open", name)
          /\ Position("open", name) < Position("open", saved.refs[i][1])
          /\ Position("loaded", saved.refs[i][1]) < Position("loaded", name)
          /\ i > 1 => Position("loaded", saved.refs[i - 1][1])
                        < Position("open", saved.refs[i][1])
    /\ Len(loaded.artifacts) = Len(saved.artifacts)
    /\ \A i \in 1..Len(saved.artifacts) :
          /\ loaded.artifacts[i][1] = saved.artifacts[i][1]
          /\ IsUnder(loaded.artifacts[i][2],
                     Append(ModelBlobPath(name), MODEL_ARTIFACTS_DIR))

\* C11: after a save and a load with default options that succeeded, every
\* node of a custom model's tree of sub-models is reconstructed, under the
\* names used at save time, children loaded depth-first before their
\* parent is constructed, and every node's artifact paths lie under that
\* node's own blob directory <node name>/artifacts.
C11_SubModelTreeIntegrity ==
    ( /\ last.op = "load" /\ ~last.meta_only /\ ~last.as_custom_model
      /\ err = NoErr
      /\ model.isCustom )
    => TreeIntact(pk.model, model, ModelName)

\* the names a load of the bundle refers to: the top-level model's and,
\* for every custom blob on disk, those of its model_refs
ReferencedNames(f) ==
    {f.files[DescriptorPath].val.name} \cup
    UNION { { f.files[p].val.refs[i][1] : i \in 1..Len(f.files[p].val.refs) } :
            p \in { q \in BlobFiles(f) : Basename(q) = CUSTOM_MODEL_BLOB_FILE } }

\* a referenced blob name has no entry in the descriptor's models, or the
\* blob file an entry records is not on disk
MissingBlob(f) ==
    \/ \E n \in ReferencedNames(f) : n \notin DOMAIN f.files[DescriptorPath].val.models
    \/ \E n \in DOMAIN f.files[DescriptorPath].val.models :
          ~Exists(f, Append(ModelBlobPath(n), f.files[DescriptorPath].val.models[n].path))

\* C12: a full load, in a matching runtime, of a bundle in which a
\* referenced blob name is absent from the metadata or a recorded blob file
\* is missing from disk fails with CorruptBundleError and returns no model.
C12_CorruptBundleError ==
    ( /\ last.op = "load" /\ ~last.meta_only
      /\ Exists(fs, DescriptorPath)
      /\ ~RuntimeMismatch
      /\ MissingBlob(fs) )
    => /\ err = CorruptBundleError
       /\ pk.kind = "failed"
       /\ pk.model = NoModel

\* C13: a load, whatever its options and its outcome, leaves every file
\* and directory as it was, the bundle's descriptor included, leaves the
\* caller's model alone, and the metadata it holds afterwards is the
\* descriptor's, unchanged by the handlers.
C13_LoadIsReadOnly ==
    [][ last'.op = "load" =>
          /\ fs' = fs
          /\ model' = model
          /\ Exists(fs, DescriptorPath) => pk'.meta = fs.files[DescriptorPath].val
      ]_vars

\* a custom model with sub-models was loaded, and so was a PyTorch model
\* saved with a cuda_version of the caller's
C13_Witness ==
    /\ last.op = "load"
    /\ err = NoErr
    /\ pk.kind \in {"native", "wrapper"}
    /\ pk.meta.cuda_version = "12.1"
    /\ ModelName \in DOMAIN pk.meta.models

----------------------------------------------------------------------------
(* env_utils: requirement lists *)

PackageNames == {"numpy", "pytorch"}

\* version specifiers of a requirement: none, or a pin
Specifiers == {"", "==1.0"}

\* requirements.Requirement after _validate_pip_requirement_string
Requirement(name, specifier) == [name |-> name, specifier |-> specifier]

Requirements == { Requirement(n, sp) : n \in PackageNames, sp \in Specifiers }

\* requirement string lists handed to the validators, up to MaxReqs long
MaxReqs == 2

RequirementLists == UNION { [1..k -> Requirements] : k \in 0..MaxReqs }

DuplicateDependencyError == "DuplicateDependencyError"
DuplicateDependencyInMultipleChannelsError == "DuplicateDependencyInMultipleChannelsError"

\* _check_if_requirement_same
CheckIfRequirementSame(req_a, req_b) == req_a.name = req_b.name

\* the requirement appended without looking at the list
AppendRequirementListUnchecked(req_list, p_req) ==
    [list |-> Append(req_list, p_req), err |-> NoErr]

\* append_requirement_list: the list as the call leaves it, and the error
AppendRequirementList(req_list, p_req) ==
    IF \E i \in 1..Len(req_list) : CheckIfRequirementSame(p_req, req_list[i])
    THEN [list |-> req_list, err |-> DuplicateDependencyError]
    ELSE [list |-> Append(req_list, p_req), err |-> NoErr]

RECURSIVE ValidatePipRequirements(_, _, _)
\* the loop of validate_pip_requirement_string_list over req_str_list
ValidatePipRequirements(reqs, i, seen) ==
    IF i > Len(reqs) THEN [list |-> seen, err |-> NoErr]
    ELSE Only({ IF r.err # NoErr THEN r
                ELSE ValidatePipRequirements(reqs, i + 1, r.list)
                : r \in { AppendRequirementList(seen, reqs[i]) } })

\* validate_pip_requirement_string_list
ValidatePipRequirementStringList(reqs) == ValidatePipRequirements(reqs, 1, <<>>)

\* append_requirement_list(req_list, p_req) on the list being built
AppendRequirement(p_req) ==
    /\ \E r \in { AppendRequirementList(envdeps.pip, p_req) } :
          envdeps' = [envdeps EXCEPT !.pip = r.list, !.err = r.err,
                                     !.op = "append_requirement_list",
                                     !.arg = p_req, !.before = envdeps.pip]
    /\ UNCHANGED <<packagerVars, resolver, scaler>>

\* req_list = validate_pip_requirement_string_list(reqs): the caller's
\* declared requirements; the list is replaced when the call returns
ValidatePipList(reqs) ==
    /\ \E r \in { ValidatePipRequirementStringList(reqs) } :
          envdeps' = [envdeps EXCEPT !.pip = IF r.err = NoErr THEN r.list ELSE @,
                                     !.err = r.err,
                                     !.op = "validate_pip_requirement_string_list",
                                     !.arg = reqs, !.before = envdeps.pip]
    /\ UNCHANGED <<packagerVars, resolver, scaler>>

\* model_meta._include_if_absent(pkg), as a handler calls it at save
IncludeDependency(pkg) ==
    /\ envdeps' = [envdeps EXCEPT !.meta = IncludeIfAbsent(@, pkg), !.err = NoErr,
                                  !.op = "_include_if_absent",
                                  !.arg = pkg, !.before = envdeps.meta]
    /\ UNCHANGED <<packagerVars, resolver, scaler>>

DepsInit == Init /\ model = CustomPlain

DepsNext ==
    \/ \E p_req \in Requirements : AppendRequirement(p_req)
    \/ \E reqs \in RequirementLists : ValidatePipList(reqs)
    \/ \E pkg \in PackageNames : IncludeDependency(pkg)

DepsSpec == DepsInit /\ [][DepsNext]_vars

\* the package names of a requirement list
Names(req_list) == { req_list[i].name : i \in 1..Len(req_list) }

\* no package name occurs twice in a requirement list
NoDuplicateNames(req_list) ==
    \A i, j \in 1..Len(req_list) : req_list[i].name = req_list[j].name => i = j

\* no package occurs twice in the metadata's dependencies
NoDuplicateDeps(d) == \A i, j \in 1..Len(d) : d[i] = d[j] => i = j

----------------------------------------------------------------------------

\* C15: a save into a target directory that is not empty changes no file
\* and no directory and, when it was given signatures or a sample, fails
\* with IOError; a save that succeeds has created the bundle directory and
\* its descriptor.
C15_NonEmptyTargetRejected ==
    [][ last'.op = "save" =>
          IF BundleEntries(fs) # {}
          THEN /\ fs' = fs
               /\ err' # NoErr
               /\ (last'.hasSigs \/ last'.sample.kind # "none") => err' = IOError
          ELSE err' = NoErr =>
                 /\ BundleRoot \in fs'.dirs
                 /\ Exists(fs', DescriptorPath)
      ]_vars

\* a second save, with signatures, into the directory of a saved bundle
C15_Witness ==
    /\ last.op = "save"
    /\ ~last.fresh
    /\ last.hasSigs
    /\ err = IOError
    /\ Exists(fs, DescriptorPath)

\* C16: a save given neither signatures nor a sample fails with
\* ValidationError; a save of a supported model into an empty directory
\* given a null-free sample, no signatures and target methods the model
\* has succeeds and records signatures.
C16_SampleAloneSuffices ==
    /\ (last.op = "save" /\ ~last.hasSigs /\ last.sample.kind = "none")
          => err = ValidationError
    /\ ( /\ SaveReachedDispatch
         /\ ~last.hasSigs
         /\ ~last.sample.hasNull
         /\ \A o \in Objects(model) : Accepting(o) # {}
         /\ last.hasTargetMethods => SeqToSet(last.target_methods) \subseteq model.callables )
       => /\ err = NoErr
          /\ pk.kind = "saved"
          /\ pk.meta.hasSigs
          /\ DOMAIN pk.meta.sigs # {}

\* the target methods of the last save
SaveTargetMethods ==
    IF last.hasTargetMethods THEN last.target_methods
    ELSE PYTORCH_DEFAULT_TARGET_METHODS

\* what the sample of the last save is as input of a torch method
SampleAsTensors ==
    IF SeqOfPyTorchTensorCanHandle(last.sample) THEN last.sample
    ELSE ConvertFromDf(ConvertLocalDataToDf(last.sample).data)

----------------------------------------------------------------------------
(* env_utils: validate_requirements_in_snowflake_conda_channel *)

\* versions of a package: 1..MaxVersion
MaxVersion == 2

NullRuntime == "null"

\* a row of information_schema.packages
Row(name, ver, runtime) == [name |-> name, version |-> ver, runtime |-> runtime]

\* remote package tables
Tables ==
    { {},
      { Row("numpy", 1, NullRuntime), Row("numpy", MaxVersion, "3.9") },
      { Row("numpy", 1, "3.8"), Row("pytorch", MaxVersion, NullRuntime) } }

\* a requirement with its specifier: any version, ==ver or >=ver
VersionReq(name, op, ver) == [name |-> name, op |-> op, ver |-> ver]

ResolverReqs ==
    { VersionReq(n, "", 0) : n \in PackageNames }
        \cup { VersionReq("numpy", "==", 1), VersionReq("numpy", ">=", MaxVersion) }

ResolverReqLists == UNION { [1..k -> ResolverReqs] : k \in 0..MaxReqs }

ResolverPythonVersions == {"3.8", "3.9"}

\* req.specifier.contains(v)
Contains(req, v) ==
    \/ req.op = ""
    \/ req.op = "==" /\ v = req.ver
    \/ req.op = ">=" /\ v >= req.ver

\* the rows the query returns: those of the requested names and, when the
\* table has the column, of the runtime version or of none
QueryRows(table, names, has_runtime_version, python_version) ==
    { r \in table :
        /\ r.name \in names
        /\ has_runtime_version => r.runtime \in {python_version, NullRuntime} }

\* the cache holding the rows' packages only
UpdateCacheReplacing(cache, rows) ==
    [n \in { r.name : r \in rows } |-> { r.version : r \in { q \in rows : q.name = n } }]

\* the loop over the result rows: every version appended to the cached
\* list of its package (the list read as a set)
UpdateCache(cache, rows) ==
    [n \in DOMAIN cache \cup { r.name : r \in rows } |->
        (IF n \in DOMAIN cache THEN cache[n] ELSE {})
            \cup { r.version : r \in { q \in rows : q.name = n } }]

\* cache.get(name, [])
CacheGet(cache, name) == IF name \in DOMAIN cache THEN cache[name] ELSE {}

\* the order of sorted() on str(req): by name, then by specifier
NameRank(n) == IF n = "numpy" THEN 1 ELSE 2
OpRank(op) == IF op = "" THEN 0 ELSE IF op = "==" THEN 1 ELSE 2
StrLess(a, b) ==
    \/ NameRank(a.name) < NameRank(b.name)
    \/ a.name = b.name /\ OpRank(a.op) < OpRank(b.op)
    \/ a.name = b.name /\ a.op = b.op /\ a.ver < b.ver

RECURSIVE Sorted(_)
\* sorted(ret_list)
Sorted(list) ==
    IF Len(list) = 0 THEN <<>>
    ELSE LET least == CHOOSE i \in 1..Len(list) :
                        \A j \in 1..Len(list) : ~StrLess(list[j], list[i])
         IN  <<list[least]>>
                \o Sorted([k \in 1..(Len(list) - 1) |->
                             IF k < least THEN list[k] ELSE list[k + 1]])

RECURSIVE Answers(_, _, _, _, _)
\* the loop over reqs after the query: [none, result, trace]
Answers(reqs, i, cache, ret_list, trace) ==
    IF i > Len(reqs) THEN [none |-> FALSE, result |-> Sorted(ret_list), trace |-> trace]
    ELSE IF { v \in CacheGet(cache, reqs[i].name) : Contains(reqs[i], v) } = {}
    THEN [none |-> TRUE, result |-> <<>>,
          trace |-> Append(trace, <<"filter", {reqs[i].name}>>)]
    ELSE Answers(reqs, i + 1, cache, Append(ret_list, reqs[i]),
                 Append(trace, <<"filter", {reqs[i].name}>>))

\* the names of reqs_to_request
NamesToRequest(cache, reqs) ==
    { reqs[i].name : i \in 1..Len(reqs) } \ DOMAIN cache

\* validate_requirements_in_snowflake_conda_channel(session, reqs,
\* python_version); fails: the query raises DataError
ValidateRequirements(reqs, python_version, has_runtime_version, fails) ==
    /\ resolver.has_runtime_version \subseteq {has_runtime_version}
    /\ \E names \in { NamesToRequest(resolver.cache, reqs) } :
       \E cache \in { IF names = {} \/ fails THEN resolver.cache
                      ELSE UpdateCache(resolver.cache,
                                       QueryRows(resolver.table, names,
                                                 has_runtime_version, python_version)) } :
       \E r \in { IF names # {} /\ fails
                  THEN [none |-> TRUE, result |-> <<>>, trace |-> << <<"query", names>> >>]
                  ELSE Answers(reqs, 1, cache, <<>>,
                               IF names = {} THEN <<>> ELSE << <<"query", names>> >>) } :
          resolver' = [resolver EXCEPT !.cache = cache,
                                       !.has_runtime_version = {has_runtime_version},
                                       !.op = "validate", !.reqs = reqs,
                                       !.python_version = python_version,
                                       !.fails = fails /\ names # {},
                                       !.none = r.none, !.result = r.result,
                                       !.trace = r.trace]
    /\ UNCHANGED <<packagerVars, envdeps, scaler>>

ResolverInit ==
    /\ envdeps = NoDeps
    /\ resolver \in { [NoResolver EXCEPT !.table = tb] : tb \in Tables }
    /\ scaler = NoScaler
    /\ model = CustomPlain
    /\ fs = [dirs |-> {<<"src">>, <<"src", "d1">>, <<"src", "d2">>}, files |-> InitialFiles]
    /\ pk = NoPk
    /\ last = NoArgs
    /\ err = NoErr
    /\ log = <<>>
    /\ reads = {}

ResolverNext ==
    \E reqs \in ResolverReqLists, python_version \in ResolverPythonVersions,
       has_runtime_version \in BOOLEAN, fails \in BOOLEAN :
        ValidateRequirements(reqs, python_version, has_runtime_version, fails)

ResolverSpec == ResolverInit /\ [][ResolverNext]_vars

\* C18: no call of the resolver removes a package or a version from the
\* cache, and in every call each requested package that was not in the
\* cache is named in a live query issued before any requirement is
\* answered.
C18_CacheAppendOnly ==
    [][ /\ \A n \in DOMAIN resolver.cache :
              /\ n \in DOMAIN resolver'.cache
              /\ resolver.cache[n] \subseteq resolver'.cache[n]
        /\ \A i \in 1..Len(resolver'.reqs) :
              resolver'.reqs[i].name \notin DOMAIN resolver.cache =>
                 /\ Len(resolver'.trace) > 0
                 /\ resolver'.trace[1][1] = "query"
                 /\ resolver'.reqs[i].name \in resolver'.trace[1][2]
        /\ \A k \in 2..Len(resolver'.trace) : resolver'.trace[k][1] = "filter"
      ]_vars

\* with one package cached by an earlier call, a call asked for it and for
\* another one, and queried the other one only
C18_Witness ==
    /\ resolver.op = "validate"
    /\ Cardinality(DOMAIN resolver.cache) = 2
    /\ Len(resolver.trace) = 3
    /\ resolver.trace[1] = <<"query", {"pytorch"}>>

\* the versions of the remote table that a call for python_version can
\* use for req
Available(req) ==
    { r.version :
        r \in { q \in QueryRows(resolver.table, {req.name},
                                CHOOSE b \in resolver.has_runtime_version : TRUE,
                                resolver.python_version) : Contains(req, q.version) } }

Latest(S) == CHOOSE v \in S : \A w \in S : w <= v

\* C19: the resolver returns None when its query failed with a data error
\* or a requested requirement has no available version meeting its
\* specifier; otherwise it returns, sorted, one entry per requirement,
\* pinned to the latest available version meeting the specifier.
C19_PinnedLatestOrNone ==
    resolver.op = "validate" =>
        IF resolver.fails \/ \E i \in 1..Len(resolver.reqs) : Available(resolver.reqs[i]) = {}
        THEN resolver.none
        ELSE /\ ~resolver.none
             /\ resolver.result =
                  Sorted([i \in 1..Len(resolver.reqs) |->
                            VersionReq(resolver.reqs[i].name, "==",
                                       Latest(Available(resolver.reqs[i])))])

----------------------------------------------------------------------------
(* env_utils: conda dependencies *)

DEFAULT_CHANNEL_NAME == ""

ChannelNames == {"conda-forge", "pip"}

\* a conda dependency string, cut into its parts: the package name and
\* the specifier alone, or a channel and "::" before them
CondaDepStrings ==
    { <<r.name, r.specifier>> : r \in Requirements }
        \cup { <<c, "::", r.name, r.specifier>> : c \in ChannelNames, r \in Requirements }

\* the string lists handed to the list validator, up to MaxReqs long:
\* unpinned requirements from the default channel and from conda-forge
CondaDepStringLists ==
    UNION { [1..k -> { s \in CondaDepStrings :
                         /\ s[Len(s)] = ""
                         /\ Len(s) = 2 \/ s[1] = "conda-forge" }]
            : k \in 0..MaxReqs }

\* _validate_conda_dependency_string: dep_str.rpartition("::"), giving the
\* channel before the last "::" (the default channel when there is none)
\* and the requirement after it
ValidateCondaDependencyString(dep_str) ==
    IF \E k \in 1..Len(dep_str) : dep_str[k] = "::"
    THEN Only({ <<dep_str[k - 1], Requirement(dep_str[k + 1], dep_str[k + 2])>>
                : k \in { CHOOSE m \in 1..Len(dep_str) :
                            /\ dep_str[m] = "::"
                            /\ \A n \in (m + 1)..Len(dep_str) : dep_str[n] # "::" } })
    ELSE <<DEFAULT_CHANNEL_NAME, Requirement(dep_str[1], dep_str[2])>>

\* the channel and requirement pairs a conda dict can be asked to take
CondaDependencies == { ValidateCondaDependencyString(s) : s \in CondaDepStrings }

\* the channels of conda_chan_deps that hold a requirement for p_req's
\* package
ChannelsWithSame(conda_chan_deps, p_req) ==
    { c \in DOMAIN conda_chan_deps :
        \E i \in 1..Len(conda_chan_deps[c]) :
            CheckIfRequirementSame(p_req, conda_chan_deps[c][i]) }

\* conda_chan_deps[p_channel].append(p_req) on a defaultdict(list)
CondaAppend(conda_chan_deps, p_channel, p_req) ==
    [c \in DOMAIN conda_chan_deps \cup {p_channel} |->
        IF c = p_channel
        THEN Append(IF c \in DOMAIN conda_chan_deps THEN conda_chan_deps[c] ELSE <<>>, p_req)
        ELSE conda_chan_deps[c]]

\* the dependency looked for in its own channel only
AppendCondaDependencyOwnChannel(conda_chan_deps, p_chan_dep) ==
    IF p_chan_dep[1] \in ChannelsWithSame(conda_chan_deps, p_chan_dep[2])
    THEN [dict |-> conda_chan_deps, err |-> DuplicateDependencyError]
    ELSE [dict |-> CondaAppend(conda_chan_deps, p_chan_dep[1], p_chan_dep[2]), err |-> NoErr]

\* append_conda_dependency: the dict as the call leaves it, and the error.
\* The loops raise at the first requirement of the same package, in
\* whichever channel the dict's iteration comes to first.
AppendCondaDependency(conda_chan_deps, p_chan_dep) ==
    IF ChannelsWithSame(conda_chan_deps, p_chan_dep[2]) = {}
    THEN [dict |-> CondaAppend(conda_chan_deps, p_chan_dep[1], p_chan_dep[2]), err |-> NoErr]
    ELSE Only({ [dict |-> conda_chan_deps,
                 err |-> IF chan_channel # p_chan_dep[1]
                         THEN DuplicateDependencyInMultipleChannelsError
                         ELSE DuplicateDependencyError]
                : chan_channel \in { CHOOSE c \in ChannelsWithSame(conda_chan_deps, p_chan_dep[2]) : TRUE } })

RECURSIVE ValidateCondaDependencies(_, _, _)
\* the loop of validate_conda_dependency_string_list over the validated
\* list
ValidateCondaDependencies(deps, i, ret) ==
    IF i > Len(deps) THEN [dict |-> ret, err |-> NoErr]
    ELSE Only({ IF r.err # NoErr THEN r
                ELSE ValidateCondaDependencies(deps, i + 1, r.dict)
                : r \in { AppendCondaDependency(ret, deps[i]) } })

\* validate_conda_dependency_string_list
ValidateCondaDependencyStringList(dep_str_list) ==
    ValidateCondaDependencies(
        [i \in 1..Len(dep_str_list) |-> ValidateCondaDependencyString(dep_str_list[i])],
        1, EmptyMap)

\* append_conda_dependency(conda_chan_deps, p_chan_dep) on the dict being
\* built
AppendConda(p_chan_dep) ==
    /\ \E r \in { AppendCondaDependency(envdeps.conda, p_chan_dep) } :
          envdeps' = [envdeps EXCEPT !.conda = r.dict, !.err = r.err,
                                     !.op = "append_conda_dependency",
                                     !.arg = p_chan_dep, !.before = envdeps.conda]
    /\ UNCHANGED <<packagerVars, resolver, scaler>>

\* conda_chan_deps = validate_conda_dependency_string_list(dep_str_list):
\* the dict is replaced when the call returns
ValidateCondaList(dep_str_list) ==
    /\ \E r \in { ValidateCondaDependencyStringList(dep_str_list) } :
          envdeps' = [envdeps EXCEPT !.conda = IF r.err = NoErr THEN r.dict ELSE @,
                                     !.err = r.err,
                                     !.op = "validate_conda_dependency_string_list",
                                     !.arg = dep_str_list, !.before = envdeps.conda]
    /\ UNCHANGED <<packagerVars, resolver, scaler>>

CondaInit == Init /\ model = CustomPlain

CondaNext ==
    \/ \E p_chan_dep \in CondaDependencies : AppendConda(p_chan_dep)
    \/ \E dep_str_list \in CondaDepStringLists : ValidateCondaList(dep_str_list)

CondaSpec == CondaInit /\ [][CondaNext]_vars

\* the channel and position pairs of a dict that hold package name
Holders(conda_chan_deps, name) ==
    UNION { { <<c, i>> : i \in { k \in 1..Len(conda_chan_deps[c]) :
                                   conda_chan_deps[c][k].name = name } }
            : c \in DOMAIN conda_chan_deps }

\* no package name occurs twice across the channels of a dict
NoDuplicateAcrossChannels(conda_chan_deps) ==
    \A name \in PackageNames : Cardinality(Holders(conda_chan_deps, name)) <= 1

\* the positions of a string list whose package an earlier position names
Repeats(dep_str_list) ==
    { j \in 1..Len(dep_str_list) :
        \E i \in 1..(j - 1) :
            ValidateCondaDependencyString(dep_str_list[i])[2].name
                = ValidateCondaDependencyString(dep_str_list[j])[2].name }

\* C20: no package name occurs twice across the channels of the dict.
\* append_conda_dependency raises DuplicateDependencyInMultipleChannelsError
\* for a package the dict holds in another channel and
\* DuplicateDependencyError for one it holds in the same channel, leaving
\* the dict unchanged, and appends to the channel otherwise.
\* validate_conda_dependency_string_list returns exactly when no package
\* is named twice, and otherwise raises, at the first entry that repeats a
\* package, the one error when the earlier entry is of another channel
\* and the other when it is of the same channel.
C20_CondaDuplicateErrors ==
    /\ NoDuplicateAcrossChannels(envdeps.conda)
    /\ envdeps.op = "append_conda_dependency" =>
          \E hs \in { UNION { Holders(envdeps.before, n) : n \in {envdeps.arg[2].name} } } :
             IF hs = {}
             THEN /\ envdeps.err = NoErr
                  /\ envdeps.conda = CondaAppend(envdeps.before, envdeps.arg[1], envdeps.arg[2])
             ELSE /\ envdeps.conda = envdeps.before
                  /\ envdeps.err = IF \E h \in hs : h[1] # envdeps.arg[1]
                                   THEN DuplicateDependencyInMultipleChannelsError
                                   ELSE DuplicateDependencyError
    /\ envdeps.op = "validate_conda_dependency_string_list" =>
          IF Repeats(envdeps.arg) = {}
          THEN /\ envdeps.err = NoErr
               /\ \A k \in 1..Len(envdeps.arg) :
                     \E d \in { ValidateCondaDependencyString(envdeps.arg[k]) } :
                        /\ d[1] \in DOMAIN envdeps.conda
                        /\ d[2] \in SeqToSet(envdeps.conda[d[1]])
               /\ \A c \in DOMAIN envdeps.conda : envdeps.conda[c] # <<>>
               /\ Cardinality(UNION { Holders(envdeps.conda, n) : n \in PackageNames })
                     = Len(envdeps.arg)
          ELSE \E j \in { CHOOSE m \in Repeats(envdeps.arg) :
                            \A n \in Repeats(envdeps.arg) : m <= n } :
               \E i \in { CHOOSE m \in 1..(j - 1) :
                            ValidateCondaDependencyString(envdeps.arg[m])[2].name
                                = ValidateCondaDependencyString(envdeps.arg[j])[2].name } :
                  /\ envdeps.conda = envdeps.before
                  /\ envdeps.err =
                        IF ValidateCondaDependencyString(envdeps.arg[i])[1]
                              # ValidateCondaDependencyString(envdeps.arg[j])[1]
                        THEN DuplicateDependencyInMultipleChannelsError
                        ELSE DuplicateDependencyError

\* a dict of two channels was asked to take, from a third channel, a
\* package it holds, and refused
C20_Witness ==
    /\ envdeps.op = "append_conda_dependency"
    /\ Cardinality(DOMAIN envdeps.conda) = 2
    /\ envdeps.arg[1] \notin DOMAIN envdeps.conda
    /\ envdeps.err = DuplicateDependencyInMultipleChannelsError
    /\ envdeps.conda = envdeps.before

----------------------------------------------------------------------------
(* preprocessing: RobustScaler *)

RuntimeError == "RuntimeError"

\* the one input column of the scaler
InputCols == {"x"}

\* a dataset: a pandas or a Snowpark DataFrame or something else, with the
\* median and the interquartile range of its column
Datasets ==
    { [kind |-> k, median |-> m, iqr |-> q] :
        k \in {"pandas", "snowpark", "other"}, m \in {1, 2}, q \in {0, 2} }

\* RobustScaler(with_centering, with_scaling, quantile_range)
NewScalers ==
    { [NoScaler EXCEPT !.with_centering = c, !.with_scaling = s,
                       !.quantile_ok = q, !.reset_clears = r] :
        c \in BOOLEAN, s \in BOOLEAN, q \in BOOLEAN, r \in BOOLEAN }

\* sklearn's _handle_zeros_in_scale
HandleZerosInScale(scale) == IF scale = 0 THEN 1 ELSE scale

\* the center_ property without its look at _state_is_set
CenterAttrIgnoresState(s) ==
    IF ~s.with_centering THEN {} ELSE {s.center}

\* the center_ property: {} for None, else the singleton of the dict
CenterAttr(s) ==
    IF ~s.with_centering \/ ~s.state_is_set THEN {} ELSE {s.center}

\* the scale_ property
ScaleAttr(s) ==
    IF ~s.with_scaling \/ ~s.state_is_set THEN {} ELSE {s.scale}

\* _reset
ScalerReset(s) ==
    [s EXCEPT !.center = EmptyMap, !.scale = EmptyMap, !.state_is_set = FALSE,
              !.is_fitted = IF s.reset_clears THEN FALSE ELSE @]

\* _fit_sklearn: the sklearn scaler raises ValueError for an invalid
\* quantile range; its attributes are copied for what is switched on
FitSklearn(s, dataset) ==
    IF ~s.quantile_ok THEN [s EXCEPT !.err = "ValueError"]
    ELSE [s EXCEPT !.center = IF s.with_centering
                              THEN [c \in InputCols |-> dataset.median] ELSE @,
                   !.scale = IF s.with_scaling
                             THEN [c \in InputCols |-> HandleZerosInScale(dataset.iqr)] ELSE @]

\* _fit_snowpark
FitSnowpark(s, dataset) ==
    IF ~s.quantile_ok THEN [s EXCEPT !.err = "ValueError"]
    ELSE [s EXCEPT !.center = [c \in InputCols |->
                                 IF s.with_centering THEN dataset.median ELSE 0],
                   !.scale = [c \in InputCols |->
                                IF s.with_scaling THEN HandleZerosInScale(dataset.iqr) ELSE 1]]

\* fit
ScalerFit(s, dataset) ==
    Only({ IF r.err # NoErr THEN r
           ELSE [r EXCEPT !.is_fitted = TRUE, !.state_is_set = TRUE, !.ever_fit = TRUE]
           : r \in { Only({ IF dataset.kind = "pandas" THEN FitSklearn(s0, dataset)
                            ELSE IF dataset.kind = "snowpark" THEN FitSnowpark(s0, dataset)
                            ELSE [s0 EXCEPT !.err = "TypeError"]
                            : s0 \in { [ScalerReset(s) EXCEPT !.op = "fit", !.err = NoErr,
                                                              !.out = <<>>] } }) } })

\* _transform_snowpark: the column less its center over its scale, as the
\* pair of the numerator and the denominator
TransformSnowpark(s, dataset) ==
    [c \in InputCols |->
        << dataset.median - (IF CenterAttr(s) # {} THEN Only(CenterAttr(s))[c] ELSE 0),
           IF ScaleAttr(s) # {} THEN Only(ScaleAttr(s))[c] ELSE 1 >>]

\* transform; a pandas DataFrame is handed to _transform_sklearn of the
\* base class
ScalerTransform(s, dataset) ==
    Only({ IF ~s.is_fitted THEN [s0 EXCEPT !.err = RuntimeError]
           ELSE IF dataset.kind = "snowpark"
                THEN [s0 EXCEPT !.out = <<"snowpark", TransformSnowpark(s, dataset)>>]
           ELSE IF dataset.kind = "pandas"
                THEN [s0 EXCEPT !.out = <<"_transform_sklearn">>]
           ELSE [s0 EXCEPT !.err = "TypeError"]
           : s0 \in { [s EXCEPT !.op = "transform", !.err = NoErr, !.out = <<>>] } })

\* _create_sklearn_object: the sklearn scaler with the attributes set on it
ScalerCreateSklearnObject(s) ==
    Only({ IF ScaleAttr(s) = {} \/ CenterAttr(s) = {}
           THEN [s0 EXCEPT !.err = RuntimeError]
           ELSE [s0 EXCEPT !.out =
                    IF s.is_fitted
                    THEN <<"sklearn", Only(CenterAttr(s)), Only(ScaleAttr(s))>>
                    ELSE <<"sklearn">>]
           : s0 \in { [s EXCEPT !.op = "_create_sklearn_object", !.err = NoErr,
                               !.out = <<>>] } })

Fit(dataset) ==
    /\ scaler' = ScalerFit(scaler, dataset)
    /\ UNCHANGED <<packagerVars, envdeps, resolver>>

Transform(dataset) ==
    /\ scaler' = ScalerTransform(scaler, dataset)
    /\ UNCHANGED <<packagerVars, envdeps, resolver>>

CreateSklearnObject ==
    /\ scaler' = ScalerCreateSklearnObject(scaler)
    /\ UNCHANGED <<packagerVars, envdeps, resolver>>

ScalerInit ==
    /\ envdeps = NoDeps
    /\ resolver = NoResolver
    /\ scaler \in NewScalers
    /\ model = CustomPlain
    /\ fs = [dirs |-> {<<"src">>, <<"src", "d1">>, <<"src", "d2">>}, files |-> InitialFiles]
    /\ pk = NoPk
    /\ last = NoArgs
    /\ err = NoErr
    /\ log = <<>>
    /\ reads = {}

ScalerNext ==
    \/ \E dataset \in Datasets : Fit(dataset)
    \/ \E dataset \in Datasets : Transform(dataset)
    \/ CreateSklearnObject

ScalerSpec == ScalerInit /\ [][ScalerNext]_vars

\* C21: a transform on a scaler no fit of which has completed raises
\* RuntimeError; center_ and scale_ are None until a fit has completed, and
\* are at any time non-None only when with_centering, respectively
\* with_scaling, is set; right after a completed fit they are non-None
\* exactly then.
C21_TransformNeedsFit ==
    /\ (scaler.op = "transform" /\ ~scaler.ever_fit) => scaler.err = RuntimeError
    /\ ~scaler.ever_fit => CenterAttr(scaler) = {} /\ ScaleAttr(scaler) = {}
    /\ CenterAttr(scaler) # {} => scaler.with_centering
    /\ ScaleAttr(scaler) # {} => scaler.with_scaling
    /\ (scaler.op = "fit" /\ scaler.err = NoErr) =>
          /\ CenterAttr(scaler) # {} <=> scaler.with_centering
          /\ ScaleAttr(scaler) # {} <=> scaler.with_scaling

\* a scaler whose only fit failed was asked to transform and refused
C21_Witness ==
    /\ scaler.op = "transform"
    /\ ~scaler.ever_fit
    /\ ~scaler.quantile_ok
    /\ scaler.err = RuntimeError

\* C24: _create_sklearn_object raises RuntimeError only when the last fit
\* of the scaler has not completed, and otherwise returns the sklearn
\* scaler, whatever with_centering and with_scaling are.
C24_CreateSklearnObjectAfterFit ==
    scaler.op = "_create_sklearn_object" =>
        IF scaler.state_is_set
        THEN scaler.err = NoErr /\ Len(scaler.out) = 3
        ELSE scaler.err = RuntimeError

----------------------------------------------------------------------------
(* env_utils: version specifiers of a requirement *)

\* a version string is the sequence of its release numbers; Wild stands
\* for the "*" of a version such as 1.2.*
Wild == 0 - 1

\* version.parse(s) raises InvalidVersion for a version with a "*"
ParsesAsVersion(v) == \A i \in 1..Len(v) : v[i] # Wild

RECURSIVE CanonicalizeVersion(_)
\* a version without its trailing zeros, as specifiers are compared
CanonicalizeVersion(v) ==
    IF Len(v) > 1 /\ v[Len(v)] = 0
    THEN CanonicalizeVersion(SubSeq(v, 1, Len(v) - 1))
    ELSE v

\* specifiers.Specifier(operator + version)
Specifier(operator, ver) == [operator |-> operator, version |-> CanonicalizeVersion(ver)]

\* the release number at position i of a version, 0 past its end
Release(v, i) == IF i <= Len(v) THEN v[i] ELSE 0

\* version a is lower than version b
VersionLess(a, b) ==
    \E i \in 1..3 :
        /\ Release(a, i) < Release(b, i)
        /\ \A j \in 1..(i - 1) : Release(a, j) = Release(b, j)

VersionEqual(a, b) == \A i \in 1..3 : Release(a, i) = Release(b, i)

\* spec.contains(v), v a parsed version
SpecifierContains(spec, v) ==
    IF spec.operator = "=="
    THEN IF ParsesAsVersion(spec.version) THEN VersionEqual(v, spec.version)
         ELSE \A i \in 1..Len(spec.version) :
                 spec.version[i] = Wild \/ spec.version[i] = Release(v, i)
    ELSE IF spec.operator = "!=" THEN ~VersionEqual(v, spec.version)
    ELSE IF spec.operator = ">=" THEN ~VersionLess(v, spec.version)
    ELSE VersionLess(v, spec.version)

\* the specifiers requirements are written with
SpecifierChoices ==
    { Specifier("==", <<1, 2, 3>>), Specifier("==", <<2, 0, 0>>),
      Specifier("==", <<1, 2, Wild>>), Specifier("!=", <<1, 2, 3>>),
      Specifier(">=", <<1, 2>>), Specifier(">=", <<2, 1>>),
      Specifier("<", <<2>>), Specifier("<", <<3>>) }

MaxSpecs == 2

\* a requirement: a package name and a specifier set
PipRequirement(name, specs) == [name |-> name, specifier |-> specs]

SNOWPARK_ML_PKG_NAME == "snowflake-ml-python"

\* snowml_env.VERSION
SNOWML_VERSION == <<1, 2, 3>>

PipRequirements ==
    { PipRequirement(n, ss) :
        n \in {"numpy", SNOWPARK_ML_PKG_NAME},
        ss \in { x \in SUBSET SpecifierChoices : Cardinality(x) <= MaxSpecs } }

\* the relaxation that adds the range and keeps the pin
RelaxSpecifierKeepsPin(spec) ==
    IF spec.operator # "==" \/ ~ParsesAsVersion(spec.version) THEN {spec}
    ELSE { spec, Specifier(">=", <<Release(spec.version, 1), Release(spec.version, 2)>>),
           Specifier("<", <<Release(spec.version, 1) + 1>>) }

\* the body of relax_requirement_version's loop: what one specifier adds
\* to relaxed_specifier_set
RelaxSpecifier(spec) ==
    IF spec.operator # "==" THEN {spec}
    ELSE IF ~ParsesAsVersion(spec.version) THEN {spec}
    ELSE { Specifier(">=", <<Release(spec.version, 1), Release(spec.version, 2)>>),
           Specifier("<", <<Release(spec.version, 1) + 1>>) }

\* relax_requirement_version: the argument as the call leaves it, and the
\* requirement returned
RelaxRequirementVersion(req) ==
    [req |-> req,
     new_req |-> [req EXCEPT !.specifier = UNION { RelaxSpecifier(spec) : spec \in req.specifier }]]

\* new_req = relax_requirement_version(req)
RelaxRequirement(req) ==
    /\ \E r \in { RelaxRequirementVersion(req) } :
          envdeps' = [envdeps EXCEPT !.op = "relax_requirement_version", !.err = NoErr,
                                     !.arg = req, !.before = r.req, !.pip = <<r.new_req>>,
                                     !.local = {}, !.warned = FALSE]
    /\ UNCHANGED <<packagerVars, resolver, scaler>>

\* relax_requirement_version(new_req): the last result relaxed again
RelaxResult ==
    /\ envdeps.op \in {"relax_requirement_version", "get_local_installed_version_of_pip_package"}
    /\ RelaxRequirement(envdeps.pip[1])

\* the version of a package's local distribution: none when the package
\* is not installed
LocalVersions == { {}, {<<1, 2, 3>>}, {<<1, 2, 4>>}, {<<2, 1>>} }

\* spec_set.contains(v): every specifier of the set contains v
SpecifierSetContains(specs, v) == \A spec \in specs : SpecifierContains(spec, v)

\* the version pinned whether or not the requirement allows it
GetLocalInstalledVersionAlwaysPins(pip_req, local) ==
    IF local = {} /\ pip_req.name # SNOWPARK_ML_PKG_NAME
    THEN [pip_req |-> pip_req, ret |-> pip_req, warned |-> FALSE]
    ELSE Only({ [pip_req |-> pip_req,
                 ret |-> [pip_req EXCEPT !.specifier = {Specifier("==", v)}],
                 warned |-> FALSE]
                : v \in IF local = {} THEN {SNOWML_VERSION} ELSE local })

\* get_local_installed_version_of_pip_package, local the version of the
\* distribution importlib_metadata finds for pip_req.name: the argument
\* as the call leaves it, the requirement returned, and whether a
\* UserWarning was emitted
GetLocalInstalledVersion(pip_req, local) ==
    IF local = {} /\ pip_req.name # SNOWPARK_ML_PKG_NAME
    THEN [pip_req |-> pip_req, ret |-> pip_req, warned |-> FALSE]
    ELSE Only({ IF ~SpecifierSetContains(pip_req.specifier, local_dist_version)
                THEN [pip_req |-> pip_req, ret |-> pip_req, warned |-> TRUE]
                ELSE [pip_req |-> pip_req,
                      ret |-> [pip_req EXCEPT !.specifier = {Specifier("==", local_dist_version)}],
                      warned |-> FALSE]
                : local_dist_version \in IF local = {} THEN {SNOWML_VERSION} ELSE local })

\* req = get_local_installed_version_of_pip_package(pip_req)
GetLocalVersion(pip_req, local) ==
    /\ \E r \in { GetLocalInstalledVersion(pip_req, local) } :
          envdeps' = [envdeps EXCEPT !.op = "get_local_installed_version_of_pip_package",
                                     !.err = NoErr, !.arg = pip_req, !.before = r.pip_req,
                                     !.pip = <<r.ret>>, !.local = local, !.warned = r.warned]
    /\ UNCHANGED <<packagerVars, resolver, scaler>>

VersionInit == Init /\ model = CustomPlain

VersionNext ==
    \/ \E req \in PipRequirements : RelaxRequirement(req)
    \/ RelaxResult
    \/ \E pip_req \in PipRequirements, local \in LocalVersions : GetLocalVersion(pip_req, local)

VersionSpec == VersionInit /\ [][VersionNext]_vars

\* a specifier that pins one version: == without a wildcard
IsPin(spec) == spec.operator = "==" /\ ParsesAsVersion(spec.version)

\* C22: relax_requirement_version leaves its argument as it was and
\* returns a requirement for the same package in which every ==x.y.z
\* specifier is replaced by >=x.y and <(x+1) and every other specifier,
\* == with a wildcard included, is kept; relaxing the result again
\* returns the result.
C22_RelaxRequirementVersion ==
    envdeps.op = "relax_requirement_version" =>
        /\ envdeps.before = envdeps.arg
        /\ envdeps.pip[1].name = envdeps.arg.name
        /\ \A spec \in envdeps.arg.specifier :
              IF IsPin(spec)
              THEN /\ spec \notin envdeps.pip[1].specifier
                   /\ [operator |-> ">=",
                       version |-> CanonicalizeVersion(<<Release(spec.version, 1),
                                                         Release(spec.version, 2)>>)]
                         \in envdeps.pip[1].specifier
                   /\ [operator |-> "<", version |-> <<Release(spec.version, 1) + 1>>]
                         \in envdeps.pip[1].specifier
              ELSE spec \in envdeps.pip[1].specifier
        /\ \A spec \in envdeps.pip[1].specifier :
              \/ spec \in envdeps.arg.specifier
              \/ \E pin \in envdeps.arg.specifier :
                    /\ IsPin(pin)
                    /\ \/ spec.operator = ">="
                          /\ VersionEqual(spec.version, <<Release(pin.version, 1),
                                                          Release(pin.version, 2)>>)
                       \/ spec.operator = "<"
                          /\ spec.version = <<Release(pin.version, 1) + 1>>
        /\ RelaxRequirementVersion(envdeps.pip[1]).new_req = envdeps.pip[1]

\* a requirement with a pin and a wildcard was relaxed
C22_Witness ==
    /\ envdeps.op = "relax_requirement_version"
    /\ envdeps.arg.specifier = { Specifier("==", <<1, 2, 3>>), Specifier("==", <<1, 2, Wild>>) }
    /\ Cardinality(envdeps.pip[1].specifier) = 3

\* C25: get_local_installed_version_of_pip_package raises nothing and
\* leaves its argument as it was.  With a local version (that of the
\* installed distribution, or the library's own for snowflake-ml-python
\* when it is not installed) that meets the specifier it returns the
\* requirement pinned to ==local version, without a warning; with one that
\* does not, it warns and returns the requirement as given; for a package
\* not installed it returns the requirement as given.
C25_LocalInstalledVersion ==
    envdeps.op = "get_local_installed_version_of_pip_package" =>
        /\ envdeps.err = NoErr
        /\ envdeps.before = envdeps.arg
        /\ \E vs \in { IF envdeps.local # {} THEN envdeps.local
                       ELSE IF envdeps.arg.name = SNOWPARK_ML_PKG_NAME THEN {SNOWML_VERSION}
                       ELSE {} } :
              IF vs = {} THEN envdeps.pip[1] = envdeps.arg /\ ~envdeps.warned
              ELSE \A v \in vs :
                      IF \A spec \in envdeps.arg.specifier : SpecifierContains(spec, v)
                      THEN /\ ~envdeps.warned
                           /\ envdeps.pip[1].name = envdeps.arg.name
                           /\ envdeps.pip[1].specifier = {[operator |-> "==", version |-> v]}
                      ELSE envdeps.warned /\ envdeps.pip[1] = envdeps.arg

\* snowflake-ml-python, not installed, was required in a version other
\* than the library's own: a warning, and the requirement as given
C25_Witness ==
    /\ envdeps.op = "get_local_installed_version_of_pip_package"
    /\ envdeps.arg.name = SNOWPARK_ML_PKG_NAME
    /\ envdeps.local = {}
    /\ envdeps.warned
    /\ envdeps.pip[1] = envdeps.arg

----------------------------------------------------------------------------
(* env_utils: load_conda_env_file *)

_SNOWFLAKE_CONDA_CHANNEL_URL == "https://repo.anaconda.com/pkgs/snowflake"
_NODEFAULTS == "nodefaults"

\* the operators PYTHON_VERSION_PATTERN knows
PythonVersionOps == {"=", "==", ">", "<", ">=", "<=", "~=", "==="}

\* An entry of the dependencies section.  A string entry is the sequence
\* of the pieces of its text: "python-dateutil" is <<"python", "-dateutil">>
\* and "conda-forge::numpy" is <<"conda-forge", "::", "numpy">>.  A dict
\* with the key pip is <<"{pip}">> followed by its requirements, anything
\* else is <<"{other}">>.
StringEntries ==
    { <<"python">>, <<"python", "==", "3.8.1">>, <<"python", "=", "3.9.1">>,
      <<"python", ">=", "3.8.1">>,
      <<"python", "-dateutil">>, <<"numpy">>, <<"conda-forge", "::", "pytorch">> }

DependencyEntries == StringEntries \cup { <<"{pip}", "numpy">>, <<"{other}">> }

\* isinstance(dep, str)
IsStr(dep) == dep[1] \notin {"{pip}", "{other}"}

\* the channels sections of a conda.yml
ChannelLists ==
    { <<>>, <<_SNOWFLAKE_CONDA_CHANNEL_URL, _NODEFAULTS>>,
      <<"conda-forge">>, <<_NODEFAULTS, "extra">> }

\* the files load_conda_env_file is given, after yaml.safe_load
CondaEnvFiles ==
    { [channels |-> ch, dependencies |-> ds] :
        ch \in ChannelLists,
        ds \in UNION { [1..k -> DependencyEntries] : k \in 0..MaxReqs } }

\* parse_python_version_string: {} for None, else the singleton of the
\* version string ("" for python without a specifier), and the error.  The
\* pattern is matched at the start of a text that starts with "python",
\* its operator and version being optional, so it matches whatever
\* follows.
ParsePythonVersionString(dep) ==
    IF dep[1] = "python"
    THEN IF Len(dep) >= 3 /\ dep[2] \in PythonVersionOps
         THEN IF dep[2] \notin {"=", "=="}
              THEN [ver |-> {}, err |-> "ValueError"]
              ELSE [ver |-> {dep[3]}, err |-> NoErr]
         ELSE [ver |-> {""}, err |-> NoErr]
    ELSE [ver |-> {}, err |-> NoErr]

\* the package name a string entry requires
EntryName(dep) ==
    Only({ IF dep[k] = "python" /\ Len(dep) > k /\ dep[k + 1] = "-dateutil"
           THEN "python-dateutil" ELSE dep[k]
           : k \in { IF Len(dep) >= 2 /\ dep[2] = "::" THEN 3 ELSE 1 } })

\* the channel a string entry names, the default channel when it names none
EntryChannel(dep) ==
    IF Len(dep) >= 2 /\ dep[2] = "::" THEN dep[1] ELSE DEFAULT_CHANNEL_NAME

\* the text of a string entry as validate_conda_dependency_string_list
\* takes it
EntryDepString(dep) ==
    IF Len(dep) >= 2 /\ dep[2] = "::"
    THEN <<dep[1], "::", EntryName(dep), "">>
    ELSE <<EntryName(dep), "">>

RECURSIVE ReadDependencies(_, _, _)
\* the loop over env["dependencies"]: deps, pip_deps, python_version and
\* the error
ReadDependencies(entries, i, acc) ==
    IF i > Len(entries) THEN acc
    ELSE IF IsStr(entries[i])
         THEN Only({ IF r.err # NoErr THEN [acc EXCEPT !.err = r.err]
                     ELSE IF r.ver # {} /\ r.ver # {""}
                          THEN ReadDependencies(entries, i + 1,
                                                [acc EXCEPT !.python_version = r.ver])
                     ELSE IF r.ver = {}
                          THEN ReadDependencies(entries, i + 1,
                                                [acc EXCEPT !.deps = Append(@, EntryDepString(entries[i]))])
                     ELSE ReadDependencies(entries, i + 1, acc)
                     : r \in { ParsePythonVersionString(entries[i]) } })
    ELSE IF entries[i][1] = "{pip}"
         THEN ReadDependencies(entries, i + 1,
                               [acc EXCEPT !.pip_deps = @ \o [k \in 1..(Len(entries[i]) - 1) |->
                                                               Requirement(entries[i][k + 1], "")]])
    ELSE [acc EXCEPT !.err = "ValueError"]

\* channels without the Snowflake channel and nodefaults
RemoveDefaultChannels(channels) ==
    { channels[i] : i \in 1..Len(channels) } \ {_SNOWFLAKE_CONDA_CHANNEL_URL, _NODEFAULTS}

\* load_conda_env_file: the conda dict, the pip requirements ({} for
\* None), the python version ({} for None) and the error
LoadCondaEnv(env) ==
    Only({ IF a.err # NoErr
           THEN [conda |-> EmptyMap, pip |-> {}, python_version |-> {}, err |-> a.err]
           ELSE Only({ IF c.err # NoErr \/ pl.err # NoErr
                       THEN [conda |-> EmptyMap, pip |-> {}, python_version |-> {},
                             err |-> IF c.err # NoErr THEN c.err ELSE pl.err]
                       ELSE [conda |-> [ch \in DOMAIN c.dict \cup RemoveDefaultChannels(env.channels) |->
                                           IF ch \in DOMAIN c.dict THEN c.dict[ch] ELSE <<>>],
                             pip |-> IF pl.list = <<>> THEN {} ELSE {pl.list},
                             python_version |-> a.python_version,
                             err |-> NoErr]
                       : c \in { ValidateCondaDependencyStringList(a.deps) },
                         pl \in { ValidatePipRequirementStringList(a.pip_deps) } })
           : a \in { ReadDependencies(env.dependencies, 1,
                                      [deps |-> <<>>, pip_deps |-> <<>>,
                                       python_version |-> {}, err |-> NoErr]) } })

\* conda, pip, python_version = load_conda_env_file(path)
LoadCondaEnvFile(env) ==
    /\ \E r \in { LoadCondaEnv(env) } :
          envdeps' = [envdeps EXCEPT !.op = "load_conda_env_file", !.err = r.err,
                                     !.arg = env, !.before = r.pip, !.conda = r.conda,
                                     !.python_version = r.python_version]
    /\ UNCHANGED <<packagerVars, resolver, scaler>>

CondaEnvInit == Init /\ model = CustomPlain

CondaEnvNext == \E env \in CondaEnvFiles : LoadCondaEnvFile(env)

CondaEnvSpec == CondaEnvInit /\ [][CondaEnvNext]_vars

\* C23: when load_conda_env_file returns, every string entry of the
\* dependencies section whose package name is not python is in the conda
\* dict, under the channel it names or under the default channel.
C23_OnlyPythonIsConsumed ==
    (envdeps.op = "load_conda_env_file" /\ envdeps.err = NoErr) =>
        \A i \in 1..Len(envdeps.arg.dependencies) :
            \E dep \in { envdeps.arg.dependencies[i] } :
                (IsStr(dep) /\ EntryName(dep) # "python") =>
                    /\ EntryChannel(dep) \in DOMAIN envdeps.conda
                    /\ \E k \in 1..Len(envdeps.conda[EntryChannel(dep)]) :
                          envdeps.conda[EntryChannel(dep)][k].name = EntryName(dep)

----------------------------------------------------------------------------

\* C26: a save that fails with ValidationError writes no file, creates no
\* directory below the bundle directory and leaves metadata.models empty.
C26_FailedValidationWritesNothing ==
    [][ (last'.op = "save" /\ err' = ValidationError) =>
          /\ fs'.files = fs.files
          /\ fs'.dirs \ fs.dirs \subseteq {BundleRoot}
          /\ DOMAIN pk'.meta.models = {}
      ]_vars

RECURSIVE Nodes(_, _)
\* the nodes of a model tree: every model with the name it is saved under
Nodes(name, o) ==
    {<<name, o>>} \cup UNION { Nodes(o.refs[i][1], o.refs[i][2]) : i \in 1..Len(o.refs) }

\* C27: after a successful save of a custom model, metadata.models has
\* exactly one entry per node of the model tree, and the entry of every
\* node records the node's own handler type and leads to the node's own
\* blob.
C27_OneEntryPerNode ==
    (last.op = "save" /\ err = NoErr /\ model.isCustom) =>
        /\ Cardinality(DOMAIN pk.meta.models) = Cardinality(Nodes(ModelName, model))
        /\ \A n \in Nodes(ModelName, model) :
              /\ n[1] \in DOMAIN pk.meta.models
              /\ pk.meta.models[n[1]].model_type = FindHandler(n[2])
              /\ Exists(fs, Append(ModelBlobPath(n[1]), pk.meta.models[n[1]].path))
              /\ fs.files[Append(ModelBlobPath(n[1]), pk.meta.models[n[1]].path)].val.id = n[2].id

\* the bundle path the metadata records for the artifact at position i of
\* the node saved under name
RecordedArtifactPath(meta, name, i) ==
    ModelBlobPath(name) \o meta.models[name].artifacts[i][2]

\* C28: after a successful save of a custom model every source artifact
\* still exists with its contents, and every logical artifact name of
\* every node is recorded with a path below the node's artifacts directory
\* that holds a copy of the name's source and that no other logical name
\* of the node is recorded with.
C28_ArtifactsCopiedAndDistinct ==
    (last.op = "save" /\ err = NoErr /\ model.isCustom) =>
        \A n \in Nodes(ModelName, model) :
            /\ n[1] \in DOMAIN pk.meta.models
            /\ \A i \in 1..Len(n[2].artifacts) :
                  /\ Exists(fs, n[2].artifacts[i][2])
                  /\ fs.files[n[2].artifacts[i][2]] = InitialFiles[n[2].artifacts[i][2]]
                  /\ n[2].isCustom =>
                        /\ Len(pk.meta.models[n[1]].artifacts) = Len(n[2].artifacts)
                        /\ pk.meta.models[n[1]].artifacts[i][1] = n[2].artifacts[i][1]
                        /\ IsUnder(RecordedArtifactPath(pk.meta, n[1], i),
                                   Append(ModelBlobPath(n[1]), MODEL_ARTIFACTS_DIR))
                        /\ Exists(fs, RecordedArtifactPath(pk.meta, n[1], i))
                        /\ fs.files[RecordedArtifactPath(pk.meta, n[1], i)]
                              = InitialFiles[n[2].artifacts[i][2]]
                        /\ \A j \in 1..Len(n[2].artifacts) :
                              RecordedArtifactPath(pk.meta, n[1], i)
                                 = RecordedArtifactPath(pk.meta, n[1], j) => i = j

\* C29: a save of a custom model into an empty directory, with declared
\* signatures of methods the model has and with sub-models that all have a
\* handler, succeeds whatever methods the sub-models have, makes no
\* framework call, and leaves in the metadata the signatures as declared
\* and the cuda_version as it was when the top-level handler was called.
C29_SubModelSaveFrame ==
    ( /\ last.op = "save" /\ last.fresh
      /\ model.isCustom
      /\ last.hasSigs /\ DOMAIN last.sigs \subseteq model.callables
      /\ \A o \in Objects(model) : Accepting(o) # {} )
    => /\ err = NoErr
       /\ log = <<>>
       /\ pk.meta.sigs = last.sigs
       /\ pk.meta.cuda_version = NewMeta(ModelName, TRUE, last.sigs, SAVE_PYTHON_VERSION).cuda_version

----------------------------------------------------------------------------

\* C30: a call of the resolver whose query, if any, succeeded returns what
\* the same call returns in a process that has made no call before, the
\* remote table being the same.
C30_HistoryIndependence ==
    (resolver.op = "validate" /\ ~resolver.fails) =>
        \E fresh \in { Answers(resolver.reqs, 1,
                               UpdateCache(EmptyMap,
                                           QueryRows(resolver.table,
                                                     NamesToRequest(EmptyMap, resolver.reqs),
                                                     CHOOSE b \in resolver.has_runtime_version : TRUE,
                                                     resolver.python_version)),
                               <<>>, <<>>) } :
            /\ resolver.none = fresh.none
            /\ resolver.result = fresh.result

====
